---- MODULE Spec2Model ----
(***************************************************************************)
(* Protocol Controller of the robot (UARTController): the driver thread    *)
(* calling the public API, and the sender, watchdog and receiver workers   *)
(* sharing the connection state.                                           *)
(*                                                                         *)
(* Time is counted in ticks of 10 ms, the smallest duration the controller *)
(* uses (the sender's queue wait).  A thread's step takes no time; time    *)
(* passes only while every thread sleeps, blocks or is idle.               *)
(***************************************************************************)
EXTENDS Integers, Sequences, FiniteSets, TLC

(* ------------------------------ bounds --------------------------------- *)
\* number of public API calls the driver makes
MaxCalls == 4
\* last instant (in ticks) the clock advances to
MaxTime == 45
\* last instant the clock advances to while the watchdog is observed
MaxWatch == 260
\* number of API calls the driver makes while the watchdog is observed
MaxWatchCalls == 3
\* number of telemetry lines the receiver gets
MaxLines == 2
\* number of get_feedback() calls the reader thread makes
MaxReads == 2
\* last instant the clock advances to while disconnect() is observed
MaxStop == 160
\* number of API calls the driver makes while disconnect() is observed
MaxStopCalls == 4
\* last instant the clock advances to, and number of API calls the driver
\* makes, while send_emergency_stop() is called on a controller that is not
\* connected
MaxOff == 60
MaxOffCalls == 5
\* enable, disable, pause, resume and reset calls made to a mode
MaxModeCalls == 4
\* frames a mode processes
MaxFrames == 3
\* ticks a mode is watched for
MaxModeTime == 200
\* frames a patrol processes and ticks it is watched for while it raises
\* alerts
MaxAlertFrames == 3
MaxAlertTime == 750
\* frames a patrol processes
MaxPatrolFrames == 6
\* ticks a patrol is watched for
MaxPatrolTime == 1900
\* API calls the driver makes and last instant the clock advances to while
\* the lines written and parsed are observed
MaxCodecCalls == 3
MaxCodecTime == 45
\* frames a patrol with a short alert processes and ticks it is watched for
MaxShortFrames == 4
MaxShortTime == 300

(* ------------------------- program constants --------------------------- *)
TicksPerSecond == 10 * 10
HEARTBEAT_INTERVAL == TicksPerSecond \div 2
HEARTBEAT_TIMEOUT == (3 * TicksPerSecond) \div 2
MAX_MISSED_HEARTBEATS == 3
UART_COMMAND_RATE_HZ == 10
command_period == TicksPerSecond \div UART_COMMAND_RATE_HZ
\* queue.get(timeout=0.01) of the sender
GetTimeout == TicksPerSecond \div 100
\* serial timeout 0.1 s of the heartbeat read
ReadTimeout == TicksPerSecond \div 10
\* time.sleep(0.1) before E1, time.sleep(0.05) after a sent E1,
\* time.sleep(0.1) after a failed E1
EnableSettle == TicksPerSecond \div 10
EnablePace == TicksPerSecond \div 20
EnableRetryWait == TicksPerSecond \div 10
EnableAttempts == 3
\* join(timeout=1.0)
JoinTimeout == TicksPerSecond
\* config.LEG_HEIGHT = 0.15 m, in units of 1/10000
LEG_HEIGHT == 1500
\* time.time() of the first call, far from the 0.0 the fields start at
Epoch == 2 * HEARTBEAT_TIMEOUT

(* --------------------------- command encoder --------------------------- *)
\* physical values are held in units of 1/10000 (0.8 m/s is 8000)
UnitsPerOne == 10 * 1000

\* an optional argument: <<>> is None, <<x>> is the value x
None == <<>>

\* int(x): truncation toward zero
TruncDiv(a, b) == IF a >= 0 THEN a \div b ELSE -((-a) \div b)

\* a scaling that rounds down
ScaledDown(value) == (value * 1000) \div UnitsPerOne

Scaled(value) == TruncDiv(value * 1000, UnitsPerOne)

\* CMD_JUMP = "J1"
CMD_JUMP_LINE == [k |-> "J", n |-> 1, id |-> 0, call |-> 0]

\* a command line; id and call tell the queued commands apart (0: not queued)
Line(k, n) == [k |-> k, n |-> n, id |-> 0, call |-> 0]

CMD_ENABLE == Line("E", 1)
CMD_DISABLE == Line("E", 0)
CMD_HEARTBEAT == Line("?", 0)

format_velocity(velocity) == Line("V", Scaled(velocity))
format_yaw_rate(yaw_rate) == Line("Y", Scaled(yaw_rate))
format_leg_height(height) == Line("H", Scaled(height))
format_roll(roll) == Line("R", Scaled(roll))

\* the arguments the driver calls send_motion_command with
Velocities == {8000}
YawRates == {-3000}
LegHeights == {None, <<1500>>}
Rolls == {None, <<1000>>}

(* ------------------------------- state --------------------------------- *)
VARIABLES
    now,                      \* time.time(), in ticks
    link,                     \* the physical link: "up", or "silent" (nothing
                              \* comes back), "flaky" (a write may fail, reads
                              \* fail), "dead" (writes and reads fail)
    serial_open,              \* _serial is not None and _serial.is_open
    is_connected,             \* _is_connected
    is_enabled,               \* _is_enabled
    running,                  \* _running
    command_queue,            \* _command_queue
    last_command_time,        \* _last_command_time
    last_heartbeat_response,  \* _last_heartbeat_response
    missed_heartbeats,        \* _missed_heartbeats
    drv,                      \* the driver thread inside an API call
    snd,                      \* the _send_loop thread
    wd,                       \* the _heartbeat_loop thread (mark: the length of
                              \* the wire when it began to handle a lost link)
    rcv,                      \* the _receive_loop thread
    wire,                     \* every line written to the serial port, in order
    lost,                     \* queued commands whose write failed
    drained,                  \* queued commands discarded by send_emergency_stop
    accepted,                 \* every command put on the queue so far, in order
    silence,                  \* watchdog cycles slept and run on a dead link
    sent_at,                  \* the instants of the sender's writes, in order
    calls,                    \* number of API calls made so far
    feedback,                 \* _feedback, the live RobotFeedback
    feedback_lock,            \* the holder of _feedback_lock
    feedback_callback,        \* _feedback_callback is set
    heartbeat_callback,       \* _heartbeat_callback is set
    rdr,                      \* a thread calling get_feedback()
    returned,                 \* the records get_feedback() has returned, in order
    callbacks,                \* number of invocations of the feedback callback
    lines,                    \* number of lines the receiver has handled so far
    joins,                    \* the joins of disconnect(): worker, begin, end
    mode,                     \* the operation mode object: its class and the
                              \* BaseMode fields
    lf,                       \* the fields of a LineFollowingMode
    ot,                       \* the fields of an ObjectTrackingMode
    patrol,                   \* the fields of a PatrolMode
    out,                      \* the ModeOutput of the last process() call
    alerts,                   \* the intruders the alert callback was called with
    mcalls,                   \* number of calls made to the mode so far
    call                      \* the call made to the mode last

vars == <<now, link, serial_open, is_connected, is_enabled, running,
          command_queue, last_command_time, last_heartbeat_response,
          missed_heartbeats, drv, snd, wd, rcv, wire, lost, drained,
          accepted, silence, sent_at, calls, feedback, feedback_lock,
          feedback_callback, heartbeat_callback, rdr, returned, callbacks, lines, joins,
          mode, lf, ot, patrol, out, alerts, mcalls, call>>

ctl == <<serial_open, is_connected, is_enabled, running>>
health == <<last_heartbeat_response, missed_heartbeats>>
ghost == <<lost, drained, accepted, silence, sent_at>>
telemetry == <<feedback, feedback_lock, feedback_callback, heartbeat_callback, rdr, returned,
               callbacks, lines>>
modes == <<mode, lf, ot, patrol, out, alerts, mcalls, call>>
uart == <<link, ctl, command_queue, last_command_time, health, drv, snd, wd, rcv,
          wire, ghost, calls, telemetry, joins>>

\* op, ret: the call in progress or the last one made, and what it returned;
\* args: its arguments; attempt: failed E1 writes; mark, pending: the length of
\* the wire and the ids of the queued commands when the call began
DrvIdle == [pc |-> "idle", op |-> "none", ret |-> "None", args |-> <<>>, todo |-> <<>>,
            attempt |-> 0, wake |-> 0, mark |-> 0, pending |-> {}]
NoCommand == Line("-", 0)

\* RobotFeedback(): the defaults of the dataclass
RobotFeedback == [velocity |-> 0, position |-> 0, yaw |-> 0, yaw_rate |-> 0,
                  timestamp |-> 0, valid |-> FALSE]

(* --------------------------- operation modes --------------------------- *)
\* class ModeState
ModeStates == {"IDLE", "RUNNING", "SEARCHING", "PAUSED", "ERROR", "COMPLETED"}

\* class PatrolState
PatrolStates == {"PATROLLING", "ROTATING", "ALERT", "TRACKING", "RETURNING"}

\* BaseMode.__init__ of a mode of the given class ("none": not constructed)
BaseMode(kind) == [kind |-> kind, state |-> "IDLE", enabled |-> FALSE, frame_count |-> 0,
                   max_velocity |-> 2 * UnitsPerOne, min_velocity |-> 0,
                   max_yaw_rate |-> (3 * UnitsPerOne) \div 2]

\* ModeOutput(velocity, yaw_rate, state, confidence), emergency_stop = False
ModeOutput(velocity, yaw_rate, state, confidence) ==
    [velocity |-> velocity, yaw_rate |-> yaw_rate, state |-> state,
     confidence |-> confidence, emergency_stop |-> FALSE]

\* no process() call has returned yet
NoOutput == [velocity |-> 0, yaw_rate |-> 0, state |-> "none", confidence |-> 0,
             emergency_stop |-> FALSE]

\* LineFollowingConfig(max_frames_lost=2), the other fields at their defaults
LineFollowingConfig ==
    [base_speed |-> 12000, max_speed |-> 20000, min_speed |-> 5000,
     steering_gain |-> 30000, heading_gain |-> 8000, search_yaw_rate |-> 6000,
     max_frames_lost |-> 2, curvature_slowdown |-> 8000]

\* LineFollowingMode.__init__: the fields of the subclass
LineFollowingMode ==
    [config |-> LineFollowingConfig, frames_lost |-> 0, last_line_position |-> 0,
     search_direction |-> 0, total_frames |-> 0, line_detected_frames |-> 0]

\* ObjectTrackingConfig(max_frames_lost=2), the other fields at their defaults
ObjectTrackingConfig ==
    [target_class |-> "person", target_distance |-> 15000, max_speed |-> 10000,
     min_speed |-> 0, approach_speed |-> 5000, steering_gain |-> 20000,
     max_yaw_rate |-> 10000, steering_deadband |-> 500, distance_deadband |-> 2000,
     distance_gain |-> 5000, min_safe_distance |-> 5000,
     max_tracking_distance |-> 50000, backup_on_too_close |-> TRUE,
     search_yaw_rate |-> 4000, max_frames_lost |-> 2, yaw_smoothing |-> 3000,
     velocity_smoothing |-> 3000, min_confidence |-> 5000, min_box_area |-> 2000]

\* ObjectTrackingMode.__init__: the fields of the subclass
ObjectTrackingMode ==
    [config |-> ObjectTrackingConfig, target |-> None, frames_lost |-> 0,
     last_target_position |-> 0, search_direction |-> 1, smoothed_yaw_rate |-> 0,
     smoothed_velocity |-> 0, total_frames |-> 0, tracking_frames |-> 0]

\* PatrolConfig(): the defaults, times in ticks
PatrolConfig ==
    [patrol_velocity |-> 3000, rotate_yaw_rate |-> 5000,
     patrol_forward_time |-> 5 * TicksPerSecond, patrol_rotate_time |-> 3 * TicksPerSecond,
     detect_class |-> "person", min_confidence |-> 5000, min_box_area |-> 3000,
     alert_distance |-> 30000, alert_duration |-> 3 * TicksPerSecond,
     track_intruder |-> TRUE, tracking_distance |-> 20000, tracking_gain |-> 15000,
     max_track_time |-> 10 * TicksPerSecond, enable_sound_alert |-> TRUE]

\* PatrolConfig(alert_duration=0.5, max_track_time=1.0)
ShortAlertConfig == [PatrolConfig EXCEPT !.alert_duration = TicksPerSecond \div 2,
                                         !.max_track_time = TicksPerSecond]

\* PatrolConfig(patrol_forward_time=1.0, patrol_rotate_time=1.0,
\*              alert_duration=0.5, max_track_time=1.0)
SweepConfig == [ShortAlertConfig EXCEPT !.patrol_forward_time = TicksPerSecond,
                                        !.patrol_rotate_time = TicksPerSecond]

\* the configurations a PatrolMode is constructed with
PatrolConfigs == {PatrolConfig, [PatrolConfig EXCEPT !.track_intruder = FALSE]}

\* PatrolMode.__init__ at instant `at`: the fields of the subclass
PatrolMode(config, at) ==
    [config |-> config, patrol_state |-> "PATROLLING", state_start_time |-> at,
     patrol_cycle |-> 0, current_intruder |-> None, intruders_detected |-> <<>>,
     alert_start_time |-> None, track_start_time |-> None, alert_callback |-> FALSE]

Init ==
    /\ now = Epoch
    /\ link = "up"
    /\ serial_open = FALSE
    /\ is_connected = FALSE
    /\ is_enabled = FALSE
    /\ running = FALSE
    /\ command_queue = <<>>
    /\ last_command_time = 0
    /\ last_heartbeat_response = 0
    /\ missed_heartbeats = 0
    /\ drv = DrvIdle
    /\ snd = [pc |-> "none", current_time |-> 0, command |-> NoCommand, wake |-> 0]
    /\ wd = [pc |-> "none", wake |-> 0, tmp |-> 0, todo |-> <<>>, mark |-> -1]
    /\ rcv = [pc |-> "none", data |-> <<>>, i |-> 0]
    /\ wire = <<>>
    /\ lost = {}
    /\ drained = {}
    /\ accepted = <<>>
    /\ silence = [cycles |-> 0, counting |-> FALSE]
    /\ sent_at = <<>>
    /\ calls = 0
    /\ feedback = RobotFeedback
    /\ feedback_lock = "free"
    /\ feedback_callback = FALSE
    /\ heartbeat_callback = FALSE
    /\ rdr = [pc |-> "idle", i |-> 0, copy |-> RobotFeedback, reads |-> 0]
    /\ returned = <<>>
    /\ callbacks = 0
    /\ lines = 0
    /\ joins = <<>>
    /\ mode = BaseMode("none")
    /\ lf = LineFollowingMode
    /\ ot = ObjectTrackingMode
    /\ patrol = PatrolMode(PatrolConfig, 0)
    /\ out = NoOutput
    /\ alerts = <<>>
    /\ mcalls = 0
    /\ call = [op |-> "none", frame |-> "None", result |-> None, at |-> Epoch]

(* --------------------------- the serial port --------------------------- *)
\* what _send_command_direct can return: False when the port is missing or
\* closed, False on a SerialException, True otherwise
WriteOutcomes ==
    IF ~serial_open \/ link = "dead" THEN {FALSE}
    ELSE IF link = "flaky" THEN {TRUE, FALSE}
    ELSE {TRUE}

\* readline() raises
ReadRaises == link \in {"flaky", "dead"}

\* _send_command_direct(command) returning ok: the line is on the wire iff ok
send_command_direct(command, by, ok) ==
    wire' = IF ok
            THEN Append(wire, [k |-> command.k, n |-> command.n, id |-> command.id,
                               call |-> command.call, by |-> by])
            ELSE wire

\* the link fails in one of the given ways, for good
LinkFails(ways) ==
    /\ link = "up"
    /\ link' \in ways
    /\ UNCHANGED <<now, modes, joins, telemetry, ctl, command_queue, last_command_time, health,
                   drv, snd, wd, rcv, wire, ghost, calls>>

(* ------------------------------ the driver ----------------------------- *)
Return(op, ret) == [drv EXCEPT !.pc = "idle", !.op = op, !.ret = ret, !.todo = <<>>, !.wake = 0]
Call(op, pc) ==
    [DrvIdle EXCEPT !.op = op, !.pc = pc, !.mark = Len(wire),
                    !.pending = {command_queue[i].id : i \in 1..Len(command_queue)}]

CanCall == drv.pc = "idle"

\* a stop sequence that disables first
StopCommandsDisableFirst == <<CMD_DISABLE, format_velocity(0), format_yaw_rate(0)>>

\* the zero-velocity, zero-yaw-rate, disable sequence of the stop paths
StopCommands == <<format_velocity(0), format_yaw_rate(0), CMD_DISABLE>>

connect ==
    /\ CanCall
    /\ ~is_connected
    /\ calls' = calls + 1
    /\ \E opened \in BOOLEAN :
         IF opened
         THEN /\ serial_open' = TRUE
              /\ is_connected' = TRUE
              /\ last_heartbeat_response' = now
              /\ running' = TRUE
              /\ snd' = [pc |-> "top", current_time |-> 0, command |-> NoCommand, wake |-> 0]
              /\ wd' = [pc |-> "sleep", wake |-> now + HEARTBEAT_INTERVAL, tmp |-> 0,
                           todo |-> <<>>, mark |-> -1]
              /\ silence' = [cycles |-> 0, counting |-> link # "up"]
              /\ rcv' = [pc |-> "poll", data |-> <<>>, i |-> 0]
              /\ drv' = [Call("connect", "idle") EXCEPT !.ret = "True"]
         ELSE /\ is_connected' = FALSE
              /\ drv' = [Call("connect", "idle") EXCEPT !.ret = "False"]
              /\ UNCHANGED <<serial_open, last_heartbeat_response, running, snd, wd, rcv,
                             silence>>
    /\ UNCHANGED <<now, modes, joins, telemetry, link, is_enabled, command_queue, last_command_time,
                   missed_heartbeats, wire, lost, drained, accepted, sent_at>>

\* a disconnect() that goes to the joins without setting the stop flag
disconnect_without_stop_flag ==
    /\ CanCall
    /\ calls' = calls + 1
    /\ drv' = [Call("disconnect", "join_send") EXCEPT !.wake = now + JoinTimeout]
    /\ UNCHANGED <<now, modes, joins, telemetry, link, serial_open, is_connected, is_enabled,
                   running, command_queue, last_command_time, health, snd, wd, rcv,
                   wire, ghost>>

\* disconnect(): stop flag, then the three joins
disconnect ==
    /\ CanCall
    /\ calls' = calls + 1
    /\ running' = FALSE
    /\ drv' = [Call("disconnect", "join_send") EXCEPT !.wake = now + JoinTimeout]
    /\ UNCHANGED <<now, modes, joins, telemetry, link, serial_open, is_connected, is_enabled, command_queue,
                   last_command_time, health, snd, wd, rcv, wire, ghost>>

Finished(thread) == thread.pc \in {"none", "done", "raised"}

disconnect_join ==
    /\ drv.pc \in {"join_send", "join_heartbeat", "join_receive"}
    /\ \/ Finished(CASE drv.pc = "join_send" -> snd
                     [] drv.pc = "join_heartbeat" -> wd
                     [] OTHER -> rcv)
       \/ now >= drv.wake
    /\ drv' = [drv EXCEPT !.pc = CASE drv.pc = "join_send" -> "join_heartbeat"
                                   [] drv.pc = "join_heartbeat" -> "join_receive"
                                   [] OTHER -> "close",
                          !.wake = now + JoinTimeout]
    /\ joins' = Append(joins, [worker |-> drv.pc, began |-> drv.wake - JoinTimeout,
                                ended |-> now,
                                stopped |-> Finished(CASE drv.pc = "join_send" -> snd
                                                       [] drv.pc = "join_heartbeat" -> wd
                                                       [] OTHER -> rcv)])
    /\ UNCHANGED <<now, modes, telemetry, link, ctl, command_queue, last_command_time, health,
                   snd, wd, rcv, wire, ghost, calls>>

\* a disconnect() that leaves the enabled flag as it is
disconnect_close_keeps_enabled ==
    /\ drv.pc = "close"
    /\ \E ok \in WriteOutcomes : send_command_direct(CMD_DISABLE, "driver", ok)
    /\ serial_open' = FALSE
    /\ is_connected' = FALSE
    /\ drv' = Return("disconnect", "None")
    /\ UNCHANGED <<now, modes, joins, telemetry, link, running, is_enabled, command_queue,
                   last_command_time, health, snd, wd, rcv, ghost, calls>>

\* final E0 if the port is open, close, both flags false
disconnect_close ==
    /\ drv.pc = "close"
    /\ \E ok \in WriteOutcomes : send_command_direct(CMD_DISABLE, "driver", ok)
    /\ serial_open' = FALSE
    /\ is_connected' = FALSE
    /\ is_enabled' = FALSE
    /\ drv' = Return("disconnect", "None")
    /\ UNCHANGED <<now, modes, joins, telemetry, link, running, command_queue, last_command_time, health,
                   snd, wd, rcv, ghost, calls>>

\* enable_control(): refused when not connected, else the settle sleep
enable_control ==
    /\ CanCall
    /\ calls' = calls + 1
    /\ drv' = IF ~is_connected
              THEN [Call("enable_control", "idle") EXCEPT !.ret = "False"]
              ELSE [Call("enable_control", "enable_try") EXCEPT
                        !.wake = now + EnableSettle]
    /\ UNCHANGED <<now, modes, joins, telemetry, link, ctl, command_queue, last_command_time, health,
                   snd, wd, rcv, wire, ghost>>

\* a retry loop that makes one pass too many
RetryAfterOneMore(attempt) == attempt < EnableAttempts

\* for attempt in range(3): whether another pass follows the failed pass `attempt`
RetryAfter(attempt) == attempt + 1 < EnableAttempts

\* one pass of the retry loop: write E1, then the pacing or the retry sleep
enable_try ==
    /\ drv.pc = "enable_try"
    /\ now >= drv.wake
    /\ \E ok \in WriteOutcomes :
         /\ send_command_direct(CMD_ENABLE, "driver", ok)
         /\ drv' = IF ok
                   THEN [drv EXCEPT !.pc = "enable_height", !.wake = now + EnablePace]
                   ELSE [drv EXCEPT !.pc = IF RetryAfter(drv.attempt)
                                           THEN "enable_try" ELSE "enable_failed",
                                    !.attempt = drv.attempt + 1,
                                    !.wake = now + EnableRetryWait]
    /\ UNCHANGED <<now, modes, joins, telemetry, link, ctl, command_queue, last_command_time, health,
                   snd, wd, rcv, ghost, calls>>

\* all attempts failed: return False, the enabled flag is not touched
enable_failed ==
    /\ drv.pc = "enable_failed"
    /\ now >= drv.wake
    /\ drv' = Return("enable_control", "False")
    /\ UNCHANGED <<now, modes, joins, telemetry, link, ctl, command_queue, last_command_time, health,
                   snd, wd, rcv, wire, ghost, calls>>

\* after a sent E1: the leg-height command of the configuration
enable_height ==
    /\ drv.pc = "enable_height"
    /\ now >= drv.wake
    /\ \E ok \in WriteOutcomes :
         send_command_direct(format_leg_height(LEG_HEIGHT), "driver", ok)
    /\ drv' = [drv EXCEPT !.pc = "enable_set"]
    /\ UNCHANGED <<now, modes, joins, telemetry, link, ctl, command_queue, last_command_time, health,
                   snd, wd, rcv, ghost, calls>>

enable_set ==
    /\ drv.pc = "enable_set"
    /\ is_enabled' = TRUE
    /\ drv' = Return("enable_control", "True")
    /\ silence' = [cycles |-> 0, counting |-> FALSE]
    /\ UNCHANGED <<now, modes, joins, telemetry, link, serial_open, is_connected, running, command_queue,
                   last_command_time, health, snd, wd, rcv, wire, lost, drained,
                   accepted, sent_at, calls>>

\* disable_control(): refused when not connected, else V0 and Y0 first
disable_control ==
    /\ CanCall
    /\ calls' = calls + 1
    /\ drv' = IF ~is_connected
              THEN [Call("disable_control", "idle") EXCEPT !.ret = "False"]
              ELSE [Call("disable_control", "disable_stop") EXCEPT
                        !.todo = SubSeq(StopCommands, 1, 2)]
    /\ UNCHANGED <<now, modes, joins, telemetry, link, ctl, command_queue, last_command_time, health,
                   snd, wd, rcv, wire, ghost>>

disable_stop ==
    /\ drv.pc = "disable_stop"
    /\ \E ok \in WriteOutcomes : send_command_direct(Head(drv.todo), "driver", ok)
    /\ drv' = [drv EXCEPT !.todo = Tail(drv.todo),
                          !.pc = IF Len(drv.todo) = 1 THEN "disable_send" ELSE "disable_stop"]
    /\ UNCHANGED <<now, modes, joins, telemetry, link, ctl, command_queue, last_command_time, health,
                   snd, wd, rcv, ghost, calls>>

\* success = _send_command_direct(E0)
disable_send ==
    /\ drv.pc = "disable_send"
    /\ \E ok \in WriteOutcomes :
         /\ send_command_direct(CMD_DISABLE, "driver", ok)
         /\ drv' = IF ok THEN [drv EXCEPT !.pc = "disable_set"]
                         ELSE Return("disable_control", "False")
    /\ UNCHANGED <<now, modes, joins, telemetry, link, ctl, command_queue, last_command_time, health,
                   snd, wd, rcv, ghost, calls>>

disable_set ==
    /\ drv.pc = "disable_set"
    /\ is_enabled' = FALSE
    /\ drv' = Return("disable_control", "True")
    /\ UNCHANGED <<now, modes, joins, telemetry, link, serial_open, is_connected, running, command_queue,
                   last_command_time, health, snd, wd, rcv, wire, ghost, calls>>

\* send_motion_command without its check of the enabled flag
MotionAcceptedWhenConnected == is_connected

\* the two checks send_motion_command makes before it queues anything
MotionAccepted == is_connected /\ is_enabled

\* the commands of one call with the yaw rate put before the velocity
MotionCommandsYawFirst(velocity, yaw_rate, leg_height, roll) ==
    <<format_yaw_rate(yaw_rate), format_velocity(velocity)>>
    \o (IF leg_height # None THEN <<format_leg_height(leg_height[1])>> ELSE <<>>)
    \o (IF roll # None THEN <<format_roll(roll[1])>> ELSE <<>>)

\* the commands of one call, in the order they are put on the queue
MotionCommands(velocity, yaw_rate, leg_height, roll) ==
    <<format_velocity(velocity), format_yaw_rate(yaw_rate)>>
    \o (IF leg_height # None THEN <<format_leg_height(leg_height[1])>> ELSE <<>>)
    \o (IF roll # None THEN <<format_roll(roll[1])>> ELSE <<>>)

send_motion_command(velocity, yaw_rate, leg_height, roll) ==
    /\ CanCall
    /\ calls' = calls + 1
    /\ drv' = IF MotionAccepted
              THEN [Call("send_motion_command", "motion_put") EXCEPT
                        !.args = <<velocity, yaw_rate, leg_height, roll>>,
                        !.todo = MotionCommands(velocity, yaw_rate, leg_height, roll)]
              ELSE [Call("send_motion_command", "idle") EXCEPT
                        !.args = <<velocity, yaw_rate, leg_height, roll>>,
                        !.ret = "rejected"]
    /\ UNCHANGED <<now, modes, joins, telemetry, link, ctl, command_queue, last_command_time, health,
                   snd, wd, rcv, wire, ghost>>

\* one _command_queue.put
motion_put ==
    /\ drv.pc = "motion_put"
    /\ accepted' = Append(accepted, [Head(drv.todo) EXCEPT !.id = Len(accepted) + 1,
                                                       !.call = calls])
    /\ command_queue' = Append(command_queue,
                               [Head(drv.todo) EXCEPT !.id = Len(accepted) + 1,
                                                      !.call = calls])
    /\ drv' = IF Len(drv.todo) = 1
              THEN Return("send_motion_command", "None")
              ELSE [drv EXCEPT !.todo = Tail(drv.todo)]
    /\ UNCHANGED <<now, modes, joins, telemetry, link, ctl, last_command_time, health, snd, wd, rcv, wire,
                   lost, drained, silence, sent_at, calls>>

\* an emptiness test that is off by one
QueueAlmostEmpty(queue) == Len(queue) <= 1

\* self._command_queue.empty()
QueueEmpty(queue) == queue = <<>>

\* one pass of `while not empty(): get_nowait()`, made by the driver in state d
estop_discard(d) ==
    IF ~QueueEmpty(command_queue)
    THEN /\ command_queue' = Tail(command_queue)
         /\ drained' = drained \cup {Head(command_queue).id}
         /\ drv' = [d EXCEPT !.pc = "estop_drain"]
    ELSE /\ drv' = [d EXCEPT !.pc = "estop_stop", !.todo = StopCommands]
         /\ UNCHANGED <<command_queue, drained>>

\* send_emergency_stop(): the call and the first pass of its drain loop
send_emergency_stop ==
    /\ CanCall
    /\ calls' = calls + 1
    /\ estop_discard(Call("send_emergency_stop", "estop_drain"))
    /\ UNCHANGED <<now, modes, joins, telemetry, link, ctl, last_command_time, health, snd, wd, rcv, wire,
                   lost, accepted, silence, sent_at>>

\* the later passes of the drain loop
estop_drain ==
    /\ drv.pc = "estop_drain"
    /\ estop_discard(drv)
    /\ UNCHANGED <<now, modes, joins, telemetry, link, ctl, last_command_time, health, snd, wd, rcv, wire,
                   lost, accepted, silence, sent_at, calls>>

\* V0, Y0, E0 written directly, whatever each write returns
estop_stop ==
    /\ drv.pc = "estop_stop"
    /\ \E ok \in WriteOutcomes : send_command_direct(Head(drv.todo), "driver", ok)
    /\ drv' = [drv EXCEPT !.todo = Tail(drv.todo),
                          !.pc = IF Len(drv.todo) = 1 THEN "estop_set" ELSE "estop_stop"]
    /\ UNCHANGED <<now, modes, joins, telemetry, link, ctl, command_queue, last_command_time, health,
                   snd, wd, rcv, ghost, calls>>

estop_set ==
    /\ drv.pc = "estop_set"
    /\ is_enabled' = FALSE
    /\ drv' = Return("send_emergency_stop", "None")
    /\ UNCHANGED <<now, modes, joins, telemetry, link, serial_open, is_connected, running, command_queue,
                   last_command_time, health, snd, wd, rcv, wire, ghost, calls>>

(* ------------------------- the sender worker --------------------------- *)
\* elapsed >= self._command_period
RateElapsed(elapsed) == elapsed >= command_period

\* top of the loop: the stop flag, the clock reading, the rate check
send_loop_top ==
    /\ snd.pc = "top"
    /\ snd' = IF ~running
              THEN [snd EXCEPT !.pc = "done"]
              ELSE IF RateElapsed(now - last_command_time)
              THEN [snd EXCEPT !.pc = "get", !.current_time = now]
              ELSE [snd EXCEPT !.pc = "sleep", !.current_time = now,
                               !.wake = now + (command_period - (now - last_command_time))]
    /\ UNCHANGED <<now, modes, joins, telemetry, link, ctl, command_queue, last_command_time, health,
                   drv, wd, rcv, wire, ghost, calls>>

\* The clock readings current_time can hold when get(timeout=0.01) returns a
\* command at instant `at`: while the queue is empty each get ends in Empty and
\* the loop reads the clock again, so the reading is at most GetTimeout old and
\* not older than the first reading `since`.
ClockReadings(since, at) ==
    {c \in {at - GetTimeout, at} : c >= since}

\* command = self._command_queue.get(timeout=0.01)
send_loop_get ==
    /\ snd.pc = "get"
    /\ command_queue # <<>>
    /\ \E c \in ClockReadings(snd.current_time, now) :
         snd' = [snd EXCEPT !.pc = "write", !.command = Head(command_queue),
                            !.current_time = c]
    /\ command_queue' = Tail(command_queue)
    /\ UNCHANGED <<now, modes, joins, telemetry, link, ctl, last_command_time, health, drv, wd, rcv, wire,
                   ghost, calls>>

\* Empty with the stop flag set: the loop ends
send_loop_stop ==
    /\ snd.pc = "get"
    /\ command_queue = <<>>
    /\ ~running
    /\ snd' = [snd EXCEPT !.pc = "done"]
    /\ UNCHANGED <<now, modes, joins, telemetry, link, ctl, command_queue, last_command_time, health,
                   drv, wd, rcv, wire, ghost, calls>>

\* self._send_command_direct(command); self._last_command_time = current_time
send_loop_write ==
    /\ snd.pc = "write"
    /\ \E ok \in WriteOutcomes :
         /\ send_command_direct(snd.command, "sender", ok)
         /\ lost' = IF ok THEN lost ELSE lost \cup {snd.command.id}
         /\ sent_at' = IF ok THEN Append(sent_at, now) ELSE sent_at
    /\ last_command_time' = snd.current_time
    /\ snd' = [snd EXCEPT !.pc = "top", !.command = NoCommand]
    /\ UNCHANGED <<now, modes, joins, telemetry, link, ctl, command_queue, health, drv, wd, rcv,
                   drained, accepted, silence, calls>>

\* time.sleep(self._command_period - elapsed) is over
send_loop_sleep ==
    /\ snd.pc = "sleep"
    /\ now >= snd.wake
    /\ snd' = [snd EXCEPT !.pc = "top"]
    /\ UNCHANGED <<now, modes, joins, telemetry, link, ctl, command_queue, last_command_time, health,
                   drv, wd, rcv, wire, ghost, calls>>

(* ------------------------ the watchdog worker -------------------------- *)
\* a timeout test that always passes
TimedOutAlways(time_since_response) == TRUE

\* time_since_response > self.HEARTBEAT_TIMEOUT
TimedOut(time_since_response) == time_since_response > HEARTBEAT_TIMEOUT

\* a miss threshold two cycles too high
TooManyMissedLate(missed) == missed >= MAX_MISSED_HEARTBEATS + 2

\* self._missed_heartbeats >= self.MAX_MISSED_HEARTBEATS
TooManyMissed(missed) == missed >= MAX_MISSED_HEARTBEATS

\* while self._running: time.sleep(HEARTBEAT_INTERVAL)
heartbeat_loop_top ==
    /\ wd.pc = "top"
    /\ wd' = IF running
             THEN [wd EXCEPT !.pc = "sleep", !.wake = now + HEARTBEAT_INTERVAL,
                             !.mark = -1]
             ELSE [wd EXCEPT !.pc = "done"]
    /\ silence' = [cycles |-> silence.cycles + (IF silence.counting THEN 1 ELSE 0),
                   counting |-> running /\ link # "up"]
    /\ UNCHANGED <<now, modes, joins, telemetry, link, ctl, command_queue, last_command_time, health,
                   drv, snd, rcv, wire, lost, drained, accepted, sent_at, calls>>

\* after the sleep: skip the cycle when not connected, else write the ping
\* and, on an open port, start the read with its 0.1 s timeout
heartbeat_ping ==
    /\ wd.pc = "sleep"
    /\ now >= wd.wake
    /\ IF ~is_connected
       THEN /\ wd' = [wd EXCEPT !.pc = "top"]
            /\ UNCHANGED wire
       ELSE /\ \E ok \in WriteOutcomes :
                 send_command_direct(CMD_HEARTBEAT, "watchdog", ok)
            /\ wd' = IF serial_open
                     THEN [wd EXCEPT !.pc = "read", !.wake = now + ReadTimeout]
                     ELSE [wd EXCEPT !.pc = "check"]
    /\ UNCHANGED <<now, modes, joins, telemetry, link, ctl, command_queue, last_command_time, health,
                   drv, snd, rcv, ghost, calls>>

\* a response that stamps the time but keeps the miss counter
heartbeat_response_keeps_count ==
    /\ wd.pc = "read"
    /\ link = "up"
    /\ last_heartbeat_response' = now
    /\ wd' = [wd EXCEPT !.pc = "check"]
    /\ UNCHANGED <<now, modes, joins, telemetry, link, ctl, command_queue, last_command_time,
                   missed_heartbeats, drv, snd, rcv, wire, ghost, calls>>

\* a non-empty response line, of any content, arrives within the timeout
heartbeat_response ==
    /\ wd.pc = "read"
    /\ link = "up"
    /\ last_heartbeat_response' = now
    /\ missed_heartbeats' = 0
    /\ wd' = [wd EXCEPT !.pc = "check"]
    /\ UNCHANGED <<now, modes, joins, telemetry, link, ctl, command_queue, last_command_time,
                   drv, snd, rcv, wire, ghost, calls>>

\* the read times out empty, or raises on a flaky link: the counter is read
heartbeat_no_response ==
    /\ wd.pc = "read"
    /\ now >= wd.wake \/ ReadRaises
    /\ wd' = [wd EXCEPT !.pc = "miss", !.tmp = missed_heartbeats]
    /\ UNCHANGED <<now, modes, joins, telemetry, link, ctl, command_queue, last_command_time, health,
                   drv, snd, rcv, wire, ghost, calls>>

\* self._missed_heartbeats += 1: the store of the value read plus one
heartbeat_miss ==
    /\ wd.pc = "miss"
    /\ missed_heartbeats' = wd.tmp + 1
    /\ wd' = [wd EXCEPT !.pc = "check", !.tmp = 0]
    /\ UNCHANGED <<now, modes, joins, telemetry, link, ctl, command_queue, last_command_time,
                   last_heartbeat_response, drv, snd, rcv, wire, ghost, calls>>

\* where a cycle goes after its link test: to the heartbeat callback when
\* one is set, else back to the top of the loop
Notify == IF heartbeat_callback THEN "notify" ELSE "top"

\* time_since_response = time.time() - last response; the timeout test
heartbeat_check ==
    /\ wd.pc = "check"
    /\ wd' = [wd EXCEPT !.pc = IF TimedOut(now - last_heartbeat_response)
                               THEN "check_missed" ELSE Notify]
    /\ UNCHANGED <<now, modes, joins, telemetry, link, ctl, command_queue, last_command_time, health,
                   drv, snd, rcv, wire, ghost, calls>>

\* the nested test of the miss counter
heartbeat_check_missed ==
    /\ wd.pc = "check_missed"
    /\ wd' = [wd EXCEPT !.pc = IF TooManyMissed(missed_heartbeats)
                               THEN "lost" ELSE Notify]
    /\ UNCHANGED <<now, modes, joins, telemetry, link, ctl, command_queue, last_command_time, health,
                   drv, snd, rcv, wire, ghost, calls>>

\* _handle_connection_lost: the flag first
handle_connection_lost ==
    /\ wd.pc = "lost"
    /\ is_enabled' = FALSE
    /\ wd' = [wd EXCEPT !.pc = "lost_stop", !.todo = StopCommands, !.mark = Len(wire)]
    /\ UNCHANGED <<now, modes, joins, telemetry, link, serial_open, is_connected, running, command_queue,
                   last_command_time, health, drv, snd, rcv, wire, ghost, calls>>

\* then V0, Y0, E0, whatever each write returns
connection_lost_stop ==
    /\ wd.pc = "lost_stop"
    /\ \E ok \in WriteOutcomes : send_command_direct(Head(wd.todo), "watchdog", ok)
    /\ wd' = [wd EXCEPT !.todo = Tail(wd.todo),
                        !.pc = IF Len(wd.todo) = 1 THEN Notify ELSE "lost_stop"]
    /\ UNCHANGED <<now, modes, joins, telemetry, link, ctl, command_queue, last_command_time, health,
                   drv, snd, rcv, ghost, calls>>

\* self._heartbeat_callback(is_healthy) returns
heartbeat_notify ==
    /\ wd.pc = "notify"
    /\ wd' = [wd EXCEPT !.pc = "top"]
    /\ UNCHANGED <<now, modes, joins, telemetry, link, ctl, command_queue, last_command_time, health,
                   drv, snd, rcv, wire, ghost, calls>>

\* self._heartbeat_callback(is_healthy) raises: the call is outside the try
\* of the loop body, so the exception ends _heartbeat_loop and its thread
heartbeat_notify_raises ==
    /\ wd.pc = "notify"
    /\ wd' = [wd EXCEPT !.pc = "raised"]
    /\ UNCHANGED <<now, modes, joins, telemetry, link, ctl, command_queue, last_command_time, health,
                   drv, snd, rcv, wire, ghost, calls>>

(* ------------------------ the receiver worker -------------------------- *)
\* the lines without the 'F' prefix the receiver tells apart: an
\* acknowledgment (OK..., ERR, !) and anything else
LineKinds == {"ack", "other"}

\* whether such a line counts as proof of life
ConfirmsLink(kind) == kind = "ack"

receive_line(kind) ==
    /\ rcv.pc = "poll"
    /\ running /\ is_connected /\ serial_open
    /\ link = "up"
    /\ IF ConfirmsLink(kind)
       THEN /\ last_heartbeat_response' = now
            /\ missed_heartbeats' = 0
       ELSE UNCHANGED health
    /\ UNCHANGED <<now, modes, joins, telemetry, link, ctl, command_queue, last_command_time,
                   drv, snd, wd, rcv, wire, ghost, calls>>

receive_loop_stop ==
    /\ rcv.pc = "poll"
    /\ ~running
    /\ rcv' = [rcv EXCEPT !.pc = "done"]
    /\ UNCHANGED <<now, modes, joins, telemetry, link, ctl, command_queue, last_command_time, health,
                   drv, snd, wd, wire, ghost, calls>>

(* ------------------------------ telemetry ------------------------------ *)
\* a line of text is a sequence of characters
Digits == <<"0", "1", "2", "3", "4", "5", "6", "7", "8", "9">>
IsDigit(c) == \E d \in 1..Len(Digits) : Digits[d] = c
DigitValue(c) == (CHOOSE d \in 1..Len(Digits) : Digits[d] = c) - 1

RECURSIVE Number(_)
\* the value of a string of digits
Number(text) ==
    IF text = <<>> THEN 0
    ELSE Number(SubSeq(text, 1, Len(text) - 1)) * 10 + DigitValue(text[Len(text)])

RECURSIVE Pow10(_)
Pow10(n) == IF n = 0 THEN 1 ELSE 10 * Pow10(n - 1)

\* float(text) for texts of digits, '.', '-' and letters: None when it
\* raises ValueError, else <<value>> in units of 1/10000
Float(text) ==
    LET negative == text # <<>> /\ text[1] = "-"
        body == IF negative THEN Tail(text) ELSE text
        dots == {i \in 1..Len(body) : body[i] = "."}
        dot == IF dots = {} THEN Len(body) + 1 ELSE CHOOSE i \in dots : TRUE
        whole == SubSeq(body, 1, dot - 1)
        frac == SubSeq(body, dot + 1, Len(body))
    IN  IF /\ Cardinality(dots) <= 1
           /\ Len(whole) + Len(frac) >= 1
           /\ \A i \in 1..Len(whole) : IsDigit(whole[i])
           /\ \A i \in 1..Len(frac) : IsDigit(frac[i])
        THEN <<(IF negative THEN -1 ELSE 1)
                 * (Number(whole) * UnitsPerOne
                    + TruncDiv(Number(frac) * UnitsPerOne, Pow10(Len(frac))))>>
        ELSE None

RECURSIVE Split(_, _)
\* text.split(sep)
Split(text, sep) ==
    LET seps == {i \in 1..Len(text) : text[i] = sep}
    IN  IF seps = {} THEN <<text>>
        ELSE LET first == CHOOSE i \in seps : \A j \in seps : i <= j
             IN  <<SubSeq(text, 1, first - 1)>>
                 \o Split(SubSeq(text, first + 1, Len(text)), sep)

\* the telemetry lines the robot sends: two that parse,
FirstLine ==
    <<"F", "1", ".", "1", ",", "1", ".", "2", ",", "1", ".", "3", ",", "1", ".", "4">>
SecondLine ==
    <<"F", "2", ".", "1", ",", "2", ".", "2", ",", "2", ".", "3", ",", "2", ".", "4">>
GoodLines == {FirstLine, SecondLine}

\* and lines with a field that is not a number at each position, with three
\* fields, with five fields
OddLines ==
    { <<"F", "x", ",", "3", ".", "2", ",", "3", ".", "3", ",", "3", ".", "4">>,
      <<"F", "3", ".", "1", ",", "x", ",", "3", ".", "3", ",", "3", ".", "4">>,
      <<"F", "3", ".", "1", ",", "3", ".", "2", ",", "x", ",", "3", ".", "4">>,
      <<"F", "3", ".", "1", ",", "3", ".", "2", ",", "3", ".", "3", ",", "x">>,
      <<"F", "3", ".", "1", ",", "3", ".", "2", ",", "3", ".", "3">>,
      <<"F", "4", ".", "1", ",", "4", ".", "2", ",", "4", ".", "3", ",", "4", ".", "4",
        ",", "4", ".", "5">> }

TelemetryLines == GoodLines \cup OddLines

\* the fields of RobotFeedback in the order _parse_feedback assigns them
FeedbackFields == <<"velocity", "position", "yaw", "yaw_rate">>

RcvPoll == [pc |-> "poll", data |-> <<>>, i |-> 0]

\* set_feedback_callback(callback)
set_feedback_callback ==
    /\ CanCall
    /\ calls' = calls + 1
    /\ feedback_callback' = TRUE
    /\ drv' = [Call("set_feedback_callback", "idle") EXCEPT !.ret = "None"]
    /\ UNCHANGED <<now, modes, joins, feedback, feedback_lock, heartbeat_callback, rdr, returned,
                   callbacks, lines, link, ctl, command_queue, last_command_time, health,
                   snd, wd, rcv, wire, ghost>>

\* set_heartbeat_callback(callback)
set_heartbeat_callback ==
    /\ CanCall
    /\ calls' = calls + 1
    /\ heartbeat_callback' = TRUE
    /\ drv' = [Call("set_heartbeat_callback", "idle") EXCEPT !.ret = "None"]
    /\ UNCHANGED <<now, modes, joins, feedback, feedback_lock, feedback_callback, rdr, returned,
                   callbacks, lines, link, ctl, command_queue, last_command_time, health,
                   snd, wd, rcv, wire, ghost>>

\* the receiver reads a line that starts with 'F': data = line[1:].split(','),
\* and nothing more when there are fewer than four fields
receive_feedback(line) ==
    /\ rcv.pc = "poll"
    /\ running /\ is_connected /\ serial_open
    /\ link = "up"
    /\ lines < MaxLines
    /\ Head(line) = "F"
    /\ lines' = lines + 1
    /\ rcv' = IF Len(Split(Tail(line), ",")) >= 4
              THEN [pc |-> "lock", data |-> Split(Tail(line), ","), i |-> 0]
              ELSE RcvPoll
    /\ UNCHANGED <<now, modes, joins, feedback, feedback_lock, feedback_callback, heartbeat_callback, rdr, returned,
                   callbacks, link, ctl, command_queue, last_command_time, health,
                   drv, snd, wd, wire, ghost, calls>>

\* with self._feedback_lock:
parse_lock ==
    /\ rcv.pc = "lock"
    /\ feedback_lock = "free"
    /\ feedback_lock' = "receiver"
    /\ rcv' = [rcv EXCEPT !.pc = "assign", !.i = 1]
    /\ UNCHANGED <<now, modes, joins, feedback, feedback_callback, heartbeat_callback, rdr, returned, callbacks, lines,
                   link, ctl, command_queue, last_command_time, health,
                   drv, snd, wd, wire, ghost, calls>>

\* self._feedback.<field> = float(data[i]); a ValueError leaves the `with`
\* block, which releases the lock, and is caught and logged
parse_assign ==
    /\ rcv.pc = "assign"
    /\ IF Float(rcv.data[rcv.i]) = None
       THEN /\ feedback_lock' = "free"
            /\ rcv' = RcvPoll
            /\ UNCHANGED feedback
       ELSE /\ feedback' = [feedback EXCEPT
                                ![FeedbackFields[rcv.i]] = Float(rcv.data[rcv.i])[1]]
            /\ rcv' = IF rcv.i = Len(FeedbackFields)
                      THEN [rcv EXCEPT !.pc = "stamp"]
                      ELSE [rcv EXCEPT !.i = rcv.i + 1]
            /\ UNCHANGED feedback_lock
    /\ UNCHANGED <<now, modes, joins, feedback_callback, heartbeat_callback, rdr, returned, callbacks, lines,
                   link, ctl, command_queue, last_command_time, health,
                   drv, snd, wd, wire, ghost, calls>>

\* timestamp = time.time(); valid = True; the lock is released
parse_stamp ==
    /\ rcv.pc = "stamp"
    /\ feedback' = [feedback EXCEPT !.timestamp = now, !.valid = TRUE]
    /\ feedback_lock' = "free"
    /\ rcv' = [rcv EXCEPT !.pc = "confirm"]
    /\ UNCHANGED <<now, modes, joins, feedback_callback, heartbeat_callback, rdr, returned, callbacks, lines,
                   link, ctl, command_queue, last_command_time, health,
                   drv, snd, wd, wire, ghost, calls>>

\* the line counts as proof of life; then the callback, if one is set
parse_confirm ==
    /\ rcv.pc = "confirm"
    /\ last_heartbeat_response' = now
    /\ missed_heartbeats' = 0
    /\ IF feedback_callback
       THEN /\ callbacks' = callbacks + 1
            /\ rcv' = [rcv EXCEPT !.pc = "callback"]
       ELSE /\ rcv' = RcvPoll
            /\ UNCHANGED callbacks
    /\ UNCHANGED <<now, modes, joins, feedback, feedback_lock, feedback_callback, heartbeat_callback, rdr, returned,
                   lines, link, ctl, command_queue, last_command_time,
                   drv, snd, wd, wire, ghost, calls>>

\* the callback returns, after any time it likes
callback_return ==
    /\ rcv.pc = "callback"
    /\ rcv' = RcvPoll
    /\ UNCHANGED <<now, modes, joins, telemetry, link, ctl, command_queue, last_command_time,
                   health, drv, snd, wd, wire, ghost, calls>>

\* the callback raises: a ValueError or IndexError is caught in
\* _parse_feedback, anything else by the except Exception of _receive_loop,
\* which sleeps 0.01 s and polls again
callback_raises ==
    /\ rcv.pc = "callback"
    /\ rcv' = RcvPoll
    /\ UNCHANGED <<now, modes, joins, telemetry, link, ctl, command_queue, last_command_time,
                   health, drv, snd, wd, wire, ghost, calls>>

\* a reader that does not wait for the lock
ReaderEntersAnyway == TRUE

\* the reader may enter `with self._feedback_lock`
ReaderMayEnter == feedback_lock = "free"

\* get_feedback() is called by another thread
get_feedback ==
    /\ rdr.pc = "idle"
    /\ rdr.reads < MaxReads
    /\ rdr' = [rdr EXCEPT !.pc = "lock", !.reads = rdr.reads + 1]
    /\ UNCHANGED <<now, modes, joins, feedback, feedback_lock, feedback_callback, heartbeat_callback, returned,
                   callbacks, lines, link, ctl, command_queue, last_command_time,
                   health, drv, snd, wd, rcv, wire, ghost, calls>>

get_feedback_lock ==
    /\ rdr.pc = "lock"
    /\ ReaderMayEnter
    /\ feedback_lock' = "reader"
    /\ rdr' = [rdr EXCEPT !.pc = "read", !.i = 1]
    /\ UNCHANGED <<now, modes, joins, feedback, feedback_callback, heartbeat_callback, returned,
                   callbacks, lines, link, ctl, command_queue, last_command_time,
                   health, drv, snd, wd, rcv, wire, ghost, calls>>

\* one keyword argument of RobotFeedback(...) is evaluated
get_feedback_read ==
    /\ rdr.pc = "read"
    /\ rdr' = [rdr EXCEPT !.copy[FeedbackFields[rdr.i]] = feedback[FeedbackFields[rdr.i]],
                          !.i = rdr.i + 1,
                          !.pc = IF rdr.i = Len(FeedbackFields) THEN "return" ELSE "read"]
    /\ UNCHANGED <<now, modes, joins, feedback, feedback_lock, feedback_callback, heartbeat_callback, returned,
                   callbacks, lines, link, ctl, command_queue, last_command_time,
                   health, drv, snd, wd, rcv, wire, ghost, calls>>

\* timestamp and valid are read, the record is built and returned, the lock
\* is released
get_feedback_return ==
    /\ rdr.pc = "return"
    /\ returned' = Append(returned, [rdr.copy EXCEPT !.timestamp = feedback.timestamp,
                                                      !.valid = feedback.valid])
    /\ feedback_lock' = "free"
    /\ rdr' = [rdr EXCEPT !.pc = "idle", !.i = 0, !.copy = RobotFeedback]
    /\ UNCHANGED <<now, modes, joins, feedback, feedback_callback, heartbeat_callback,
                   callbacks, lines, link, ctl, command_queue, last_command_time,
                   health, drv, snd, wd, rcv, wire, ghost, calls>>

(* -------------------------------- time --------------------------------- *)
DrvSleeping ==
    \/ drv.pc \in {"enable_try", "enable_failed", "enable_height"} /\ now < drv.wake
    \/ /\ now < drv.wake
       /\ \/ drv.pc = "join_send" /\ ~Finished(snd)
          \/ drv.pc = "join_heartbeat" /\ ~Finished(wd)
          \/ drv.pc = "join_receive" /\ ~Finished(rcv)

SndSleeping == snd.pc = "sleep" /\ now < snd.wake
SndWaiting == snd.pc = "get" /\ command_queue = <<>> /\ running

WdSleeping == wd.pc = "sleep" /\ now < wd.wake
WdReading == wd.pc = "read" /\ now < wd.wake /\ ~ReadRaises

\* no thread has a step to take at this instant
AllBlocked ==
    /\ drv.pc = "idle" \/ DrvSleeping
    /\ Finished(snd) \/ SndSleeping \/ SndWaiting
    /\ Finished(wd) \/ WdSleeping \/ WdReading
    /\ \/ Finished(rcv)
       \/ rcv.pc = "poll" /\ running
       \/ rcv.pc = "callback"
       \/ rcv.pc = "lock" /\ feedback_lock # "free"
    /\ rdr.pc = "idle" \/ (rdr.pc = "lock" /\ ~ReaderMayEnter)

WakeTimes ==
    (IF DrvSleeping THEN {drv.wake} ELSE {})
    \cup (IF SndSleeping THEN {snd.wake} ELSE {})
    \cup (IF WdSleeping \/ WdReading THEN {wd.wake} ELSE {})

Min(S) == CHOOSE x \in S : \A y \in S : x <= y

\* the clock advances to the next instant at which a thread wakes, up to `limit`
Tick(limit) ==
    /\ AllBlocked
    /\ WakeTimes # {}
    /\ Min(WakeTimes) <= limit
    /\ now' = Min(WakeTimes)
    /\ UNCHANGED <<modes, joins, telemetry, link, ctl, command_queue, last_command_time, health,
                   drv, snd, wd, rcv, wire, ghost, calls>>

(* ------------------------------ the system ----------------------------- *)
\* The first MaxTime ticks of a session: the driver makes any MaxCalls calls of
\* connect, enable_control, disable_control, send_motion_command and
\* send_emergency_stop while the sender runs, on a link that accepts every
\* write.  The watchdog sleeps its first interval through this window.
Next ==
    \/ calls < MaxCalls /\ connect
    \/ calls < MaxCalls /\ enable_control
    \/ enable_try
    \/ enable_height
    \/ enable_set
    \/ calls < MaxCalls /\ disable_control
    \/ disable_stop
    \/ disable_send
    \/ disable_set
    \/ calls < MaxCalls
         /\ \E v \in Velocities, y \in YawRates, h \in LegHeights, r \in Rolls :
               send_motion_command(v, y, h, r)
    \/ motion_put
    \/ calls < MaxCalls /\ send_emergency_stop
    \/ estop_drain
    \/ estop_stop
    \/ estop_set
    \/ send_loop_top
    \/ send_loop_get
    \/ send_loop_write
    \/ send_loop_sleep
    \/ Tick(Epoch + MaxTime)

Spec == Init /\ [][Next]_vars

\* The same window on a link that may start to fail writes: the driver
\* connects, enables and sends motion commands while the sender runs.
NextLink ==
    \/ calls < MaxCalls /\ connect
    \/ calls < MaxCalls /\ enable_control
    \/ enable_try
    \/ enable_failed
    \/ enable_height
    \/ enable_set
    \/ calls < MaxCalls
         /\ \E v \in Velocities, y \in YawRates, h \in LegHeights, r \in Rolls :
               send_motion_command(v, y, h, r)
    \/ motion_put
    \/ send_loop_top
    \/ send_loop_get
    \/ send_loop_write
    \/ send_loop_sleep
    \/ LinkFails({"flaky"})
    \/ Tick(Epoch + MaxTime)

SpecLink == Init /\ [][NextLink]_vars

\* The watchdog at work: the driver connects and calls enable_control, the
\* sender waits on its empty queue, the receiver confirms the link whenever a
\* line arrives, and the link may go silent or dead at any instant of the
\* first MaxWatch ticks.
NextWatch ==
    \/ calls < MaxCalls /\ connect
    \/ calls < MaxWatchCalls /\ enable_control
    \/ enable_try
    \/ enable_failed
    \/ enable_height
    \/ enable_set
    \/ send_loop_top
    \/ heartbeat_loop_top
    \/ heartbeat_ping
    \/ heartbeat_response
    \/ heartbeat_no_response
    \/ heartbeat_miss
    \/ heartbeat_check
    \/ heartbeat_check_missed
    \/ handle_connection_lost
    \/ connection_lost_stop
    \/ \E kind \in LineKinds : receive_line(kind)
    \/ LinkFails({"silent", "dead"})
    \/ Tick(Epoch + MaxWatch)

SpecWatch == Init /\ [][NextWatch]_vars

\* disconnect() at work: the driver connects, may set a feedback callback and
\* enable control, and disconnects at any instant of the first MaxStop ticks,
\* while the sender waits on its empty queue and the watchdog and the receiver
\* run on a link that stays up; the feedback callback may keep the receiver
\* for any time.
NextStop ==
    \/ calls < MaxStopCalls /\ connect
    \/ calls < MaxStopCalls /\ set_feedback_callback
    \/ calls < MaxStopCalls /\ enable_control
    \/ enable_try
    \/ enable_height
    \/ enable_set
    \/ calls < MaxStopCalls /\ disconnect
    \/ disconnect_join
    \/ disconnect_close
    \/ send_loop_top
    \/ send_loop_stop
    \/ heartbeat_loop_top
    \/ heartbeat_ping
    \/ heartbeat_response
    \/ heartbeat_check
    \/ lines = 0 /\ receive_feedback(FirstLine)
    \/ parse_lock
    \/ parse_assign
    \/ parse_stamp
    \/ parse_confirm
    \/ callback_return
    \/ receive_loop_stop
    \/ Tick(Epoch + MaxStop)

SpecStop == Init /\ [][NextStop]_vars

\* Telemetry: the driver connects and may set a feedback callback, the
\* receiver gets up to MaxLines telemetry lines of any kind, and another
\* thread calls get_feedback() up to MaxReads times, in any interleaving.
NextFeedback ==
    \/ calls < MaxCalls /\ connect
    \/ calls < MaxCalls /\ set_feedback_callback
    \/ \E line \in TelemetryLines : receive_feedback(line)
    \/ parse_lock
    \/ parse_assign
    \/ parse_stamp
    \/ parse_confirm
    \/ callback_return
    \/ get_feedback
    \/ get_feedback_lock
    \/ get_feedback_read
    \/ get_feedback_return

SpecFeedback == Init /\ [][NextFeedback]_vars

\* The same with telemetry lines that parse and no callback: the receiver
\* stores line after line while another thread calls get_feedback().
NextCopy ==
    \/ calls < MaxCalls /\ connect
    \/ \E line \in GoodLines : receive_feedback(line)
    \/ parse_lock
    \/ parse_assign
    \/ parse_stamp
    \/ parse_confirm
    \/ get_feedback
    \/ get_feedback_lock
    \/ get_feedback_read
    \/ get_feedback_return

SpecCopy == Init /\ [][NextCopy]_vars

\* The emergency stop of a controller that is not connected: the driver
\* connects, enables, queues motion commands and disconnects in any order, and
\* calls send_emergency_stop() whenever the controller is not connected, in
\* the first MaxOff ticks of a session on a link that stays up.
NextOff ==
    \/ calls < MaxOffCalls /\ connect
    \/ calls < MaxOffCalls /\ enable_control
    \/ enable_try
    \/ enable_height
    \/ enable_set
    \/ calls < MaxOffCalls
         /\ \E v \in Velocities, y \in YawRates : send_motion_command(v, y, None, None)
    \/ motion_put
    \/ calls < MaxOffCalls /\ disconnect
    \/ disconnect_join
    \/ disconnect_close
    \/ calls < MaxOffCalls /\ ~is_connected /\ send_emergency_stop
    \/ estop_drain
    \/ estop_stop
    \/ estop_set
    \/ send_loop_top
    \/ send_loop_get
    \/ send_loop_stop
    \/ send_loop_write
    \/ send_loop_sleep
    \/ heartbeat_loop_top
    \/ heartbeat_ping
    \/ heartbeat_response
    \/ heartbeat_check
    \/ receive_loop_stop
    \/ Tick(Epoch + MaxOff)

SpecOff == Init /\ [][NextOff]_vars

(* ------------------------- views of the wire --------------------------- *)
\* the lines the sender has written, in order
SenderLines == SelectSeq(wire, LAMBDA e : e.by = "sender")

\* the lines the driver has written since its current (or last) call began
CallLines ==
    SelectSeq(SubSeq(wire, drv.mark + 1, Len(wire)), LAMBDA e : e.by = "driver")

\* a wire entry as the command line it carries
AsLine(e) == [k |-> e.k, n |-> e.n, id |-> e.id, call |-> e.call]
AsLines(entries) == [i \in 1..Len(entries) |-> AsLine(entries[i])]

(* ------------------------------- C1 ------------------------------------ *)
\* C1: the sender writes a queued velocity (V) or yaw-rate (Y) command only
\* while the enabled flag is true: whenever the sender holds such a command
\* and is about to write it, the flag is true.
C1_SenderWritesOnlyWhileEnabled ==
    (snd.pc = "write" /\ snd.command.k \in {"V", "Y"}) => is_enabled

(* ------------------------------- C2 ------------------------------------ *)
\* the lines the watchdog has written since it began to handle a lost link
HandlerLines ==
    SelectSeq(SubSeq(wire, wd.mark + 1, Len(wire)), LAMBDA e : e.by = "watchdog")

\* how many of the handler's three writes have been tried
HandlerTried == IF wd.pc = "lost_stop" THEN 3 - Len(wd.todo) ELSE 3

C2_Handled ==
    wd.mark >= 0 =>
        /\ wd.pc \in {"lost_stop", "top"}
        /\ is_connected
        /\ \E n \in 0..HandlerTried :
              AsLines(HandlerLines) = SubSeq(<<Line("V", 0), Line("Y", 0), Line("E", 0)>>, 1, n)
        /\ link # "dead" => Len(HandlerLines) = HandlerTried

\* C2: in a watchdog cycle whose timeout test finds more than HEARTBEAT_TIMEOUT
\* since the last confirmed response and whose miss test finds at least
\* MAX_MISSED_HEARTBEATS misses - and in no other cycle - the watchdog sets the
\* enabled flag to false, then writes V0, Y0, E0 in that order, going on after
\* a failed write, and leaves the connected flag (and the port) as they were.
C2_LinkLostHandling ==
    /\ []C2_Handled
    /\ [][wd' # wd =>
            /\ wd.pc = "check"
                 => (wd'.pc = "check_missed"
                       <=> now - last_heartbeat_response > HEARTBEAT_TIMEOUT)
            /\ wd.pc = "check_missed"
                 => (wd'.pc = "lost" <=> missed_heartbeats >= MAX_MISSED_HEARTBEATS)
            /\ wd'.pc = "lost" => wd.pc = "check_missed"
            /\ wd.pc = "lost" => (~is_enabled' /\ wire' = wire /\ wd'.pc = "lost_stop")
            /\ wd.pc \in {"lost", "lost_stop"}
                 => UNCHANGED <<is_connected, serial_open, running>>]_vars

\* the handler has run on a silent link after exactly MAX_MISSED_HEARTBEATS
\* misses: a controller that was enabled is disabled, still connected, and
\* V0, Y0, E0 are on the wire
C2_Witness ==
    /\ wd.pc = "top" /\ wd.mark >= 0
    /\ AsLines(HandlerLines) = <<Line("V", 0), Line("Y", 0), Line("E", 0)>>
    /\ missed_heartbeats = MAX_MISSED_HEARTBEATS
    /\ \E i \in 1..wd.mark : AsLine(wire[i]) = CMD_ENABLE
    /\ is_connected /\ ~is_enabled

(* ------------------------------- C3 ------------------------------------ *)
\* C3: once the link of a connected, enabled controller is dead or silent for
\* good, the enabled flag is false by the end of the (MAX_MISSED_HEARTBEATS +
\* 1)-th full watchdog cycle (sleep, exchange, tests) on the failed link; the
\* flag then becomes true again only when an enable_control() call sets it
\* before returning true, for which the controller is still connected.
C3_BoundedDetection ==
    /\ [](/\ (is_connected /\ link # "up"
               /\ silence.cycles >= MAX_MISSED_HEARTBEATS + 1) => ~is_enabled
          /\ wd.mark >= 0 => (is_connected /\ serial_open /\ running))
    /\ [][(~is_enabled /\ is_enabled')
            => (drv.op = "enable_control" /\ drv.pc = "enable_set"
                /\ drv'.pc = "idle" /\ drv'.ret = "True")]_vars

\* on a silent link the watchdog has disabled an enabled controller, and a
\* second enable_control(), with no connect() in between, has enabled it again
C3_Witness ==
    /\ link = "silent"
    /\ calls = 3 /\ drv.op = "enable_control" /\ drv.pc = "idle" /\ drv.ret = "True"
    /\ is_enabled
    /\ \E i, j, k \in 1..Len(wire) :
         /\ i < j /\ j < k
         /\ AsLine(wire[i]) = CMD_ENABLE /\ wire[i].by = "driver"
         /\ AsLine(wire[j]) = CMD_DISABLE /\ wire[j].by = "watchdog"
         /\ AsLine(wire[k]) = CMD_ENABLE /\ wire[k].by = "driver"

(* ------------------------------- C4 ------------------------------------ *)
\* C4: after send_emergency_stop() has returned, the outbound queue is empty
\* and the enabled flag is false, whatever the queue held and whatever the
\* flags were, with the sender running concurrently.
C4_EstopLeavesQueueEmptyAndDisabled ==
    (drv.op = "send_emergency_stop" /\ drv.pc = "idle")
        => (command_queue = <<>> /\ ~is_enabled)

\* an emergency stop that returned after discarding queued commands of a
\* connected, enabled controller whose sender had already written one
C4_Witness ==
    /\ drv.op = "send_emergency_stop" /\ drv.pc = "idle"
    /\ drained # {}
    /\ Len(SenderLines) > 0
    /\ is_connected

(* ------------------------------- C5 ------------------------------------ *)
\* C5: send_emergency_stop() first discards every queued command, then writes
\* exactly V0, Y0, E0 in that order directly to the wire before it returns
\* (on a link that accepts the writes); none of the commands pending in the
\* queue when the call made its first pass over the queue is written to the
\* wire after that.
C5_EstopDiscardsThenStops ==
    drv.op = "send_emergency_stop" =>
        /\ \A i \in (drv.mark + 1)..Len(wire) :
              wire[i].by = "sender" => wire[i].id \notin drv.pending
        /\ (drv.pc = "idle" /\ is_connected /\ link = "up")
              => AsLines(CallLines) = <<Line("V", 0), Line("Y", 0), Line("E", 0)>>

(* ------------------------------- C6 ------------------------------------ *)
\* C6: a send_motion_command() call made while the connected flag or the
\* enabled flag is false returns at once without enqueuing anything: the
\* queue, both flags and the wire are as before the call.
C6_RejectedMotionCommandIsNoOp ==
    [][(drv.pc = "idle" /\ drv'.op = "send_motion_command" /\ calls' = calls + 1
          /\ (~is_connected \/ ~is_enabled))
        => (/\ drv'.pc = "idle"
            /\ drv'.ret = "rejected"
            /\ command_queue' = command_queue
            /\ accepted' = accepted
            /\ is_connected' = is_connected
            /\ is_enabled' = is_enabled
            /\ wire' = wire)]_vars

\* a call rejected for the enabled flag alone: the controller is connected
\* and was enabled before (its E1 is on the wire)
C6_Witness ==
    /\ drv.op = "send_motion_command" /\ drv.ret = "rejected" /\ drv.pc = "idle"
    /\ is_connected /\ ~is_enabled
    /\ \E i \in 1..Len(wire) : AsLine(wire[i]) = CMD_ENABLE

(* ------------------------------- C7 ------------------------------------ *)
Rank(k) == CASE k = "V" -> 1 [] k = "Y" -> 2 [] k = "H" -> 3 [] k = "R" -> 4
             [] OTHER -> 0

Kinds(commands) == [i \in 1..Len(commands) |-> commands[i].k]

\* the commands call number c put on the queue, in order
CallCommands(c) == SelectSeq(accepted, LAMBDA e : e.call = c)

\* written by the sender, then held by the sender, then still queued
SenderOrder ==
    AsLines(SenderLines)
    \o (IF snd.pc = "write" THEN <<snd.command>> ELSE <<>>)
    \o command_queue

\* C7: an accepted send_motion_command call enqueues V, then Y, then H if a
\* leg height is given, then R if a roll is given; the sender writes queued
\* commands in their enqueue order, so a V is written before its paired Y and
\* the commands of an earlier call before those of a later call.
C7_EnqueueOrderAndFifo ==
    /\ (drv.op = "send_motion_command" /\ drv.pc = "idle" /\ drv.ret = "None")
         => Kinds(CallCommands(calls))
              = <<"V", "Y">> \o (IF drv.args[3] # None THEN <<"H">> ELSE <<>>)
                             \o (IF drv.args[4] # None THEN <<"R">> ELSE <<>>)
    /\ \A i, j \in 1..Len(SenderOrder) :
         i < j => /\ SenderOrder[i].id < SenderOrder[j].id
                  /\ SenderOrder[i].call <= SenderOrder[j].call
                  /\ SenderOrder[i].call = SenderOrder[j].call
                       => Rank(SenderOrder[i].k) < Rank(SenderOrder[j].k)

\* the sender has written V, Y and H of one call, then the V of the next call,
\* whose Y is still queued
C7_Witness ==
    /\ Kinds(SenderLines) = <<"V", "Y", "H", "V">>
    /\ SenderLines[1].call < SenderLines[4].call
    /\ command_queue # <<>>

(* ------------------------------- C8 ------------------------------------ *)
Written(id) == {i \in 1..Len(SenderLines) : SenderLines[i].id = id}
Queued(id) == \E i \in 1..Len(command_queue) : command_queue[i].id = id
InFlight(id) == snd.pc = "write" /\ snd.command.id = id

\* C8: every command accepted into the queue is written to the wire by the
\* sender exactly once unless send_emergency_stop drains it first; none is
\* dropped: an accepted command is still queued, or held by the sender for
\* its write, or drained, or on the wire (once).
C8_AcceptedCommandsAreWrittenOnce ==
    \A id \in 1..Len(accepted) :
        /\ Cardinality(Written(id)) <= 1
        /\ Written(id) # {} \/ id \in drained \/ Queued(id) \/ InFlight(id)

(* ------------------------------- C9 ------------------------------------ *)
\* C9: the sender writes at most one queued command per command period:
\* between two consecutive writes of queued commands at least one full period
\* elapses.
C9_OneWritePerPeriod ==
    \A i \in 1..(Len(sent_at) - 1) :
        sent_at[i + 1] - sent_at[i] >= command_period

(* ------------------------------- C10 ----------------------------------- *)
\* the E1 lines among the lines of the current call
EnableLines == SelectSeq(AsLines(CallLines), LAMBDA c : c = Line("E", 1))

C10_Returns ==
    drv.op = "enable_control" =>
        \* at most 3 writes of E1 are tried, and none after one that succeeded
        /\ drv.attempt + Len(EnableLines) <= 3
        /\ Len(EnableLines) <= 1
        /\ (Len(EnableLines) = 1 /\ drv.pc # "enable_height") => drv.pc \in {"enable_set", "idle"}
        \* not connected: False, nothing written
        /\ (drv.pc = "idle" /\ ~is_connected)
             => (drv.ret = "False" /\ CallLines = <<>>)
        \* connected: True after E1 then the leg height, False after 3 failed writes
        /\ (drv.pc = "enable_set" \/ (drv.pc = "idle" /\ drv.ret = "True"))
             => /\ AsLines(CallLines) \in {<<Line("E", 1), Line("H", 150)>>, <<Line("E", 1)>>}
                /\ link = "up" => Len(CallLines) = 2
        /\ (drv.pc = "idle" /\ drv.ret = "True") => is_enabled
        /\ (drv.pc = "idle" /\ is_connected)
             => (drv.ret = "False" <=> (drv.attempt = 3 /\ CallLines = <<>>))

\* C10: enable_control() returns false and writes nothing when not connected;
\* when connected it tries to write E1 at most 3 times and stops at the first
\* write that succeeds; after it, it writes the configured leg-height command
\* (H150) and only then sets the enabled flag and returns true; if all 3
\* writes fail it returns false and leaves the enabled flag as it was.
C10_EnableControl ==
    /\ []C10_Returns
    /\ [][(drv.op = "enable_control" /\ drv.pc # "idle")
            => IF drv.pc = "enable_set" /\ drv' # drv
               THEN is_enabled' /\ drv'.pc = "idle" /\ drv'.ret = "True"
               ELSE is_enabled' = is_enabled]_vars

\* enable_control() returned true on its third attempt, after two failed writes
C10_Witness ==
    /\ drv.op = "enable_control" /\ drv.pc = "idle" /\ drv.ret = "True"
    /\ drv.attempt = 2
    /\ is_enabled

(* ------------------------------- C11 ----------------------------------- *)
\* how many of the three writes of disable_control() have been tried
DisableTried ==
    CASE drv.pc = "disable_stop" -> 2 - Len(drv.todo)
      [] drv.pc = "disable_send" -> 2
      [] OTHER -> 3

\* C11: disable_control() on a connected controller writes V0, then Y0, then
\* E0 directly to the wire, in that order; whenever it returns true the
\* enabled flag is false; when the controller is not connected it returns
\* false and writes nothing.
C11_DisableControl ==
    drv.op = "disable_control" =>
        /\ ~is_connected => (drv.pc = "idle" /\ drv.ret = "False" /\ CallLines = <<>>)
        /\ is_connected =>
             AsLines(CallLines)
                = SubSeq(<<Line("V", 0), Line("Y", 0), Line("E", 0)>>, 1, DisableTried)
        /\ (drv.pc = "idle" /\ drv.ret = "True") => ~is_enabled

\* disable_control() returned true on a controller that was enabled, while the
\* sender was writing queued commands in between
C11_Witness ==
    /\ drv.op = "disable_control" /\ drv.pc = "idle" /\ drv.ret = "True"
    /\ AsLines(CallLines) = <<Line("V", 0), Line("Y", 0), Line("E", 0)>>
    /\ \E i \in 1..drv.mark : AsLine(wire[i]) = CMD_ENABLE
    /\ \E i \in (drv.mark + 1)..Len(wire) : wire[i].by = "sender"
    /\ ~is_enabled

(* ------------------------------- C12 ----------------------------------- *)
C12_Stopped ==
    /\ drv.op = "disconnect" =>
          \* the stop flag is set for the whole call and stays set
          /\ ~running
          \* nothing but the final E0 is written by the call
          /\ AsLines(CallLines) \in {<<>>, <<Line("E", 0)>>}
          /\ drv.pc # "close" => (drv.pc = "idle" \/ CallLines = <<>>)
          \* on return both flags are false and the port is closed
          /\ drv.pc = "idle" => (~is_connected /\ ~is_enabled /\ ~serial_open)
    \* the send, heartbeat and receive workers are joined in this order, each
    \* until it has stopped or JoinTimeout has passed, and no longer
    /\ \A i \in 1..Len(joins) :
          /\ joins[i].worker
                = <<"join_send", "join_heartbeat", "join_receive">>[((i - 1) % 3) + 1]
          /\ joins[i].ended - joins[i].began <= JoinTimeout
          /\ joins[i].stopped \/ joins[i].ended - joins[i].began = JoinTimeout

\* C12: disconnect() sets the stop flag seen by the three worker loops, waits
\* for each worker with a bounded timeout and proceeds even if a worker has
\* not stopped, then writes a final E0 if the link is still open, then closes
\* the link; when it returns, the connected and enabled flags are both false
\* and no worker writes to the wire afterwards.
C12_Disconnect ==
    /\ []C12_Stopped
    /\ [][/\ (drv.pc = "close" /\ drv' # drv)
               => /\ Len(joins) % 3 = 0
                  /\ wire' = IF serial_open
                             THEN Append(wire, [k |-> "E", n |-> 0, id |-> 0, call |-> 0,
                                                by |-> "driver"])
                             ELSE wire
                  /\ ~serial_open' /\ ~is_connected' /\ ~is_enabled'
                  /\ drv'.pc = "idle"
          /\ (drv.op = "disconnect" /\ drv.pc = "idle" /\ drv'.op = "disconnect")
               => wire' = wire]_vars

\* disconnect() has returned from a connected, enabled controller whose
\* receiver is still inside the feedback callback: the join of the receiver
\* ran into its timeout, E0 is the last line on the wire
C12_Witness ==
    /\ drv.op = "disconnect" /\ drv.pc = "idle"
    /\ rcv.pc = "callback"
    /\ Len(joins) = 3 /\ ~joins[3].stopped /\ joins[2].stopped
    /\ joins[2].ended > joins[2].began
    /\ AsLines(CallLines) = <<Line("E", 0)>>
    /\ \E i \in 1..drv.mark : AsLine(wire[i]) = CMD_ENABLE
    /\ \E i \in (drv.mark + 1)..Len(wire) : wire[i].by = "watchdog"

(* ------------------------------- C13 ----------------------------------- *)
\* the fields of a telemetry line parse as four floats
Parses(data) ==
    /\ Len(data) >= Len(FeedbackFields)
    /\ \A i \in 1..Len(FeedbackFields) : Float(data[i]) # None

\* C13: when the receiver gets a line starting with 'F' that cannot be parsed
\* as four floats (a field that is not a number at any of the four positions,
\* or fewer than four fields), the stored RobotFeedback, the miss counter and
\* the time of the last confirmed response are left exactly as before, and
\* the feedback callback is not invoked: no step the receiver takes on such a
\* line changes any of them.
C13_MalformedLineChangesNothing ==
    [][\A line \in TelemetryLines :
          (/\ ~Parses(Split(Tail(line), ","))
           /\ rcv' # rcv
           /\ \/ rcv.pc = "poll" /\ lines' = lines + 1
                   /\ rcv' \in {RcvPoll, [pc |-> "lock", data |-> Split(Tail(line), ","),
                                          i |-> 0]}
              \/ rcv.pc # "poll" /\ rcv.data = Split(Tail(line), ","))
          => UNCHANGED <<feedback, missed_heartbeats, last_heartbeat_response,
                         callbacks>>]_vars

(* ------------------------------- C14 ----------------------------------- *)
\* the velocity, position, yaw and yaw rate of a record
Values(record) == [i \in 1..Len(FeedbackFields) |-> record[FeedbackFields[i]]]

\* the four values a telemetry line that parses carries
LineValues(line) ==
    [i \in 1..Len(FeedbackFields) |-> Float(Split(Tail(line), ",")[i])[1]]

C14_Whole ==
    \A i \in 1..Len(returned) :
        \/ Values(returned[i]) = Values(RobotFeedback)
        \/ \E line \in GoodLines : Values(returned[i]) = LineValues(line)

\* C14: get_feedback() returns a copy that is never torn: under any
\* interleaving with the receiver parsing valid telemetry lines, the velocity,
\* position, yaw and yaw rate of every returned record all come from one and
\* the same telemetry line, or all from the initial record, and later receiver
\* writes do not change a record that was already returned.
C14_FeedbackCopyNotTorn ==
    /\ []C14_Whole
    /\ [][/\ Len(returned') >= Len(returned)
          /\ \A i \in 1..Len(returned) : returned'[i] = returned[i]]_vars

\* a record returned between two telemetry lines holds the first line, while
\* the receiver is in the middle of storing the second, and a second
\* get_feedback() is waiting for the lock
C14_Witness ==
    /\ Len(returned) = 1
    /\ Values(returned[1]) = LineValues(FirstLine)
    /\ rcv.pc = "assign" /\ rcv.i = 3
    /\ feedback.velocity = LineValues(SecondLine)[1]
    /\ feedback.yaw = LineValues(FirstLine)[3]
    /\ rdr.pc = "lock"

(* ------------------------------- C15 ----------------------------------- *)
\* C15: when the controller is not connected, send_emergency_stop() raises no
\* error, writes nothing to the wire, and leaves the connected flag, the
\* enabled flag and the outbound queue as they were before the call: no step
\* of such a call changes any of them.
C15_EstopWhenNotConnectedIsNoOp ==
    [][(drv'.op = "send_emergency_stop" /\ drv' # drv /\ ~is_connected)
         => UNCHANGED <<wire, is_connected, is_enabled, command_queue>>]_vars

(* ------------------------- the operation modes ------------------------- *)
\* the classes of mode
ModeKinds == {"Patrol", "LineFollowing", "ObjectTracking"}

\* the product of two values held in units of 1/10000
Mul(a, b) == TruncDiv(a * b, UnitsPerOne)

Abs(a) == IF a >= 0 THEN a ELSE -a
Max(a, b) == IF a >= b THEN a ELSE b
Smaller(a, b) == IF a <= b THEN a ELSE b

\* BaseMode._clamp_velocity and _clamp_yaw_rate
clamp_velocity(v) == Max(mode.min_velocity, Smaller(mode.max_velocity, v))
clamp_yaw_rate(yaw) == Max(-mode.max_yaw_rate, Smaller(mode.max_yaw_rate, yaw))

\* _create_stop_output(message): zero velocity, the current ModeState
create_stop_output == ModeOutput(0, 0, mode.state, 0)

\* the frames process() is called with: None, an empty array, an image
Frames == {"None", "empty", "image"}

\* color_frame is None or color_frame.size == 0
InvalidFrame(frame) == frame \in {"None", "empty"}

\* the operation called last, the frame and the detector's result it was given
\* and the instant it was called at
ModeCall(op, frame, result) == [op |-> op, frame |-> frame, result |-> result, at |-> now]

\* a mode object is constructed: LineFollowingMode(config),
\* ObjectTrackingMode(config) or PatrolMode(config)
construct(kind, config) ==
    /\ mode.kind = "none"
    /\ mode' = BaseMode(kind)
    /\ lf' = LineFollowingMode
    /\ ot' = ObjectTrackingMode
    /\ patrol' = PatrolMode(config, now)
    /\ call' = ModeCall("construct", "None", None)
    /\ UNCHANGED <<now, uart, out, alerts, mcalls>>

\* BaseMode.enable()
enable ==
    /\ mode.kind # "none"
    /\ mode' = [mode EXCEPT !.enabled = TRUE, !.state = "RUNNING"]
    /\ mcalls' = mcalls + 1
    /\ call' = ModeCall("enable", "None", None)
    /\ UNCHANGED <<now, uart, lf, ot, patrol, out, alerts>>

\* a disable() that clears the enabled flag and keeps the ModeState
disable_flag_only ==
    /\ mode.kind # "none"
    /\ mode' = [mode EXCEPT !.enabled = FALSE]
    /\ mcalls' = mcalls + 1
    /\ call' = ModeCall("disable", "None", None)
    /\ UNCHANGED <<now, uart, lf, ot, patrol, out, alerts>>

\* BaseMode.disable()
disable ==
    /\ mode.kind # "none"
    /\ mode' = [mode EXCEPT !.enabled = FALSE, !.state = "IDLE"]
    /\ mcalls' = mcalls + 1
    /\ call' = ModeCall("disable", "None", None)
    /\ UNCHANGED <<now, uart, lf, ot, patrol, out, alerts>>

\* a pause() that also pauses a searching mode
PauseAppliesWhenActive(state) == state \in {"RUNNING", "SEARCHING"}

\* the state test of pause()
PauseApplies(state) == state = "RUNNING"

\* BaseMode.pause()
pause ==
    /\ mode.kind # "none"
    /\ mode' = IF PauseApplies(mode.state) THEN [mode EXCEPT !.state = "PAUSED"] ELSE mode
    /\ mcalls' = mcalls + 1
    /\ call' = ModeCall("pause", "None", None)
    /\ UNCHANGED <<now, uart, lf, ot, patrol, out, alerts>>

\* the state test of resume()
ResumeApplies(state) == state = "PAUSED"

\* BaseMode.resume()
resume ==
    /\ mode.kind # "none"
    /\ mode' = IF ResumeApplies(mode.state) THEN [mode EXCEPT !.state = "RUNNING"] ELSE mode
    /\ mcalls' = mcalls + 1
    /\ call' = ModeCall("resume", "None", None)
    /\ UNCHANGED <<now, uart, lf, ot, patrol, out, alerts>>

\* reset() of each class: ModeState IDLE and the fields of the subclass as
\* constructed, the enabled flag, the frame count and the configuration kept
reset ==
    /\ mode.kind # "none"
    /\ mode' = [mode EXCEPT !.state = "IDLE"]
    /\ mcalls' = mcalls + 1
    /\ call' = ModeCall("reset", "None", None)
    /\ lf' = IF mode.kind = "LineFollowing"
             THEN [LineFollowingMode EXCEPT !.config = lf.config] ELSE lf
    /\ ot' = IF mode.kind = "ObjectTracking"
             THEN [ObjectTrackingMode EXCEPT !.config = ot.config] ELSE ot
    /\ patrol' = IF mode.kind = "Patrol"
                 THEN [PatrolMode(patrol.config, now) EXCEPT
                           !.alert_callback = patrol.alert_callback]
                 ELSE patrol
    /\ UNCHANGED <<now, uart, out, alerts>>

\* a process() that does not look at the enabled flag
ProcessRunsAlways == TRUE

\* process() goes past its first test
ProcessRuns == mode.enabled

\* process() returns the stop output: the mode is not enabled or the frame
\* is invalid
process_stop(frame) ==
    /\ mode.kind # "none"
    /\ ~ProcessRuns \/ InvalidFrame(frame)
    /\ out' = create_stop_output
    /\ call' = ModeCall("process", frame, None)
    /\ UNCHANGED <<now, uart, mode, lf, ot, patrol, alerts, mcalls>>

(* LineFollowingMode *)
\* the results of SimpleLineDetector.detect: no line; a line dead ahead; a
\* line to the right; a line to the left seen with half confidence
NoLine == [line_detected |-> FALSE, position_error |-> 0, heading_error |-> 0,
           confidence |-> 0]
LineResults ==
    { NoLine,
      [line_detected |-> TRUE, position_error |-> 0, heading_error |-> 0,
       confidence |-> UnitsPerOne],
      [line_detected |-> TRUE, position_error |-> 2000, heading_error |-> 0,
       confidence |-> UnitsPerOne],
      [line_detected |-> TRUE, position_error |-> -4000, heading_error |-> 0,
       confidence |-> UnitsPerOne \div 2] }

\* LineFollowingMode._calculate_yaw_rate
line_yaw_rate(result) ==
    clamp_yaw_rate(Mul(lf.config.steering_gain, result.position_error)
                   + Mul(lf.config.heading_gain, result.heading_error))

\* LineFollowingMode._calculate_velocity, feedback None
line_velocity(result) ==
    LET error_magnitude == Abs(result.position_error)
                           + TruncDiv(Abs(result.heading_error) * 100, 157)
        min_factor == UnitsPerOne - lf.config.curvature_slowdown
        speed_factor == Mul(Max(min_factor, UnitsPerOne - error_magnitude),
                            result.confidence)
    IN  clamp_velocity(lf.config.min_speed
                       + Mul(lf.config.max_speed - lf.config.min_speed, speed_factor))

\* a search that turns the other way at every lost frame after the first
line_search_direction_flips(frames_lost) ==
    IF frames_lost = 1 THEN 1 ELSE -lf.search_direction

\* the search direction chosen at the first lost frame
line_search_direction(frames_lost) ==
    IF frames_lost = 1
    THEN IF lf.last_line_position > 1000 THEN 1
         ELSE IF lf.last_line_position < -1000 THEN -1
         ELSE 1
    ELSE lf.search_direction

\* LineFollowingMode.process on an enabled mode with a valid frame
LineFollowingMode_process(result) ==
    /\ mode.kind = "LineFollowing"
    /\ ProcessRuns
    /\ call' = ModeCall("process", "image", result)
    /\ IF result.line_detected
       THEN /\ lf' = [lf EXCEPT !.total_frames = lf.total_frames + 1,
                                !.line_detected_frames = lf.line_detected_frames + 1,
                                !.frames_lost = 0,
                                !.last_line_position = result.position_error]
            /\ mode' = [mode EXCEPT !.frame_count = mode.frame_count + 1,
                                    !.state = "RUNNING"]
            /\ out' = ModeOutput(line_velocity(result), line_yaw_rate(result),
                                 "RUNNING", result.confidence)
       ELSE IF lf.frames_lost + 1 > lf.config.max_frames_lost
       THEN /\ lf' = [lf EXCEPT !.total_frames = lf.total_frames + 1,
                                !.frames_lost = lf.frames_lost + 1]
            /\ mode' = [mode EXCEPT !.frame_count = mode.frame_count + 1,
                                    !.state = "ERROR"]
            /\ out' = ModeOutput(0, 0, "ERROR", 0)
       ELSE /\ lf' = [lf EXCEPT !.total_frames = lf.total_frames + 1,
                                !.frames_lost = lf.frames_lost + 1,
                                !.search_direction =
                                    line_search_direction(lf.frames_lost + 1)]
            /\ mode' = [mode EXCEPT !.frame_count = mode.frame_count + 1,
                                    !.state = "SEARCHING"]
            /\ out' = ModeOutput(0, line_search_direction(lf.frames_lost + 1)
                                       * lf.config.search_yaw_rate,
                                 "SEARCHING", 0)
    /\ UNCHANGED <<now, uart, ot, patrol, alerts, mcalls>>
(* the detector's results *)
\* the frame is 640 by 480
CAMERA_WIDTH == 640
CAMERA_HEIGHT == 480

\* DetectedObject(class_name, confidence, bbox, depth), center the middle of
\* the box; confidence and depth in units, the box in pixels
DetectedObject(class_name, confidence, bbox, depth) ==
    [class_name |-> class_name, confidence |-> confidence, bbox |-> bbox,
     depth |-> depth,
     center |-> <<(bbox[1] + bbox[3]) \div 2, (bbox[2] + bbox[4]) \div 2>>]

\* a person 2.0 m ahead, right of the middle
PersonNear == DetectedObject("person", 9000, <<400, 100, 500, 300>>, 20000)
\* a person 1.0 m ahead in the middle, seen less surely
PersonClose == DetectedObject("person", 6000, <<260, 100, 380, 400>>, 10000)
\* a person 4.0 m ahead: beyond alert_distance
PersonFar == DetectedObject("person", 9000, <<100, 100, 200, 300>>, 40000)
\* a person whose depth is not known
PersonNoDepth == DetectedObject("person", 9000, <<100, 100, 200, 300>>, 0)
\* a person seen with confidence under min_confidence
PersonUnsure == DetectedObject("person", 3000, <<100, 100, 200, 300>>, 20000)
\* a person whose box is 50 by 50 pixels
PersonSmall == DetectedObject("person", 9000, <<100, 100, 150, 150>>, 20000)
\* something else 2.0 m ahead
Chair == DetectedObject("chair", 9000, <<100, 100, 200, 300>>, 20000)

\* the lists result.objects of one frame
Detections ==
    { <<>>, <<PersonNear>>, <<PersonClose>>, <<PersonFar>>, <<PersonNoDepth>>,
      <<PersonUnsure>>, <<PersonSmall>>, <<Chair>>,
      <<PersonNear, PersonClose>>, <<Chair, PersonNear>> }

BoxArea(bbox) == (bbox[3] - bbox[1]) * (bbox[4] - bbox[2])

(* ObjectTrackingMode *)
\* the tests of _find_target on one object
IsCandidate(obj) ==
    /\ obj.class_name = ot.config.target_class
    /\ ~(obj.confidence < ot.config.min_confidence)
    /\ ~(BoxArea(obj.bbox) < ot.config.min_box_area)
    /\ ~(obj.depth > 0 /\ obj.depth > ot.config.max_tracking_distance)

\* obj comes before other in the sort by (box area, confidence), descending
SortsBefore(obj, other) ==
    \/ BoxArea(obj.bbox) > BoxArea(other.bbox)
    \/ BoxArea(obj.bbox) = BoxArea(other.bbox) /\ obj.confidence > other.confidence

\* ObjectTrackingMode._find_target: None, or <<target>>
find_target(objects) ==
    LET candidates == SelectSeq(objects, IsCandidate)
        first == CHOOSE i \in 1..Len(candidates) :
                    /\ \A j \in 1..Len(candidates) : ~SortsBefore(candidates[j], candidates[i])
                    /\ \A j \in 1..(i - 1) : SortsBefore(candidates[i], candidates[j])
    IN  IF candidates = <<>> THEN None ELSE <<candidates[first]>>

\* ObjectTrackingMode._calculate_yaw_rate: the new smoothed yaw rate
target_yaw_rate(position_error) ==
    LET target_yaw == IF Abs(position_error) < ot.config.steering_deadband THEN 0
                      ELSE clamp_yaw_rate(Mul(-ot.config.steering_gain, position_error))
        alpha == UnitsPerOne - ot.config.yaw_smoothing
    IN  Mul(alpha, target_yaw) + Mul(ot.config.yaw_smoothing, ot.smoothed_yaw_rate)

\* ObjectTrackingMode._calculate_velocity, distance > 0: the new smoothed velocity
target_velocity(distance) ==
    LET distance_error == distance - ot.config.target_distance
        wanted ==
            IF Abs(distance_error) < ot.config.distance_deadband THEN 0
            ELSE IF distance < ot.config.min_safe_distance
            THEN IF ot.config.backup_on_too_close THEN -2000 ELSE 0
            ELSE Max(-Mul(ot.config.max_speed, 3000),
                     Smaller(ot.config.max_speed,
                             Mul(distance_error, ot.config.distance_gain)))
        alpha == UnitsPerOne - ot.config.velocity_smoothing
    IN  Mul(alpha, wanted) + Mul(ot.config.velocity_smoothing, ot.smoothed_velocity)

\* ObjectTrackingMode.process on an enabled mode with a valid frame
ObjectTrackingMode_process(objects) ==
    LET found == find_target(objects)
        target == found[1]
        position_error == TruncDiv((target.center[1] - 320) * UnitsPerOne, 320)
    IN
    /\ mode.kind = "ObjectTracking"
    /\ ProcessRuns
    /\ call' = ModeCall("process", "image", objects)
    /\ IF found # None
       THEN /\ ot' = [ot EXCEPT !.total_frames = ot.total_frames + 1,
                                !.tracking_frames = ot.tracking_frames + 1,
                                !.target = found,
                                !.frames_lost = 0,
                                !.last_target_position = position_error,
                                !.smoothed_yaw_rate = target_yaw_rate(position_error),
                                !.smoothed_velocity =
                                    IF target.depth <= 0 THEN ot.smoothed_velocity
                                    ELSE target_velocity(target.depth)]
            /\ mode' = [mode EXCEPT !.frame_count = mode.frame_count + 1,
                                    !.state = "RUNNING"]
            /\ out' = ModeOutput(IF target.depth <= 0
                                 THEN ot.config.approach_speed \div 2
                                 ELSE target_velocity(target.depth),
                                 target_yaw_rate(position_error),
                                 "RUNNING", target.confidence)
       ELSE IF ot.frames_lost + 1 > ot.config.max_frames_lost
       THEN /\ ot' = [ot EXCEPT !.total_frames = ot.total_frames + 1,
                                !.frames_lost = ot.frames_lost + 1]
            /\ mode' = [mode EXCEPT !.frame_count = mode.frame_count + 1,
                                    !.state = "ERROR"]
            /\ out' = ModeOutput(0, 0, "ERROR", 0)
       ELSE LET direction == IF ot.frames_lost + 1 = 1
                             THEN IF ot.last_target_position > 0 THEN 1 ELSE -1
                             ELSE ot.search_direction
            IN  /\ ot' = [ot EXCEPT !.total_frames = ot.total_frames + 1,
                                    !.frames_lost = ot.frames_lost + 1,
                                    !.search_direction = direction]
                /\ mode' = [mode EXCEPT !.frame_count = mode.frame_count + 1,
                                        !.state = "SEARCHING"]
                /\ out' = ModeOutput(0, direction * ot.config.search_yaw_rate,
                                     "SEARCHING", 0)
    /\ UNCHANGED <<now, uart, lf, patrol, alerts, mcalls>>
(* PatrolMode *)
\* Intruder(bbox, center_x, center_y, distance, confidence, timestamp) of a
\* detection that passed the tests of _detect_intruder
Intruder(det, at) ==
    [bbox |-> det.bbox,
     center_x |-> TruncDiv((det.center[1] - CAMERA_WIDTH \div 2) * UnitsPerOne,
                           CAMERA_WIDTH \div 2),
     center_y |-> TruncDiv((det.center[2] - CAMERA_HEIGHT \div 2) * UnitsPerOne,
                           CAMERA_HEIGHT \div 2),
     distance |-> det.depth, confidence |-> det.confidence, timestamp |-> at]

\* the tests of _detect_intruder on one detection; a depth that is not
\* positive is an infinite distance
Qualifies(det) ==
    /\ det.class_name = patrol.config.detect_class
    /\ ~(det.confidence < patrol.config.min_confidence)
    /\ ~(BoxArea(det.bbox) < patrol.config.min_box_area)
    /\ det.depth > 0
    /\ ~(det.depth > patrol.config.alert_distance)

\* a comparison that lets the later of two equal scores win
ScoresAtLeast(det, best) ==
    det.confidence * (best.depth + UnitsPerOne \div 10)
        >= best.confidence * (det.depth + UnitsPerOne \div 10)

\* score = confidence * (1.0 / (distance + 0.1)) of det exceeds that of best
ScoresHigher(det, best) ==
    det.confidence * (best.depth + UnitsPerOne \div 10)
        > best.confidence * (det.depth + UnitsPerOne \div 10)

\* the loop of _detect_intruder from object i on: best is None or <<det>>
RECURSIVE best_detection(_, _, _)
best_detection(objects, i, best) ==
    IF i > Len(objects) THEN best
    ELSE IF Qualifies(objects[i])
            /\ IF best = None THEN objects[i].confidence > 0
               ELSE ScoresHigher(objects[i], best[1])
    THEN best_detection(objects, i + 1, <<objects[i]>>)
    ELSE best_detection(objects, i + 1, best)

\* PatrolMode._detect_intruder: None or <<Intruder>>
detect_intruder(objects, at) ==
    LET best == best_detection(objects, 1, None)
    IN  IF best = None THEN None ELSE <<Intruder(best[1], at)>>

\* a forward timer that runs out at patrol_forward_time already
ForwardTimeReached(elapsed, config) == elapsed >= config.patrol_forward_time

\* the test of _process_patrolling
ForwardTimeElapsed(elapsed, config) == elapsed > config.patrol_forward_time

\* the test of _process_rotating
RotateTimeElapsed(elapsed, config) == elapsed > config.patrol_rotate_time

RECURSIVE process_patrolling(_, _)
RECURSIVE process_rotating(_, _)

\* a rotation that always turns the same way
SameDirection(patrol_cycle) == 1

\* direction = 1 if self._patrol_cycle % 2 == 0 else -1
Direction(patrol_cycle) == IF patrol_cycle % 2 = 0 THEN 1 ELSE -1

\* PatrolMode._process_patrolling: the fields after it and its output
process_patrolling(p, current_time) ==
    IF ForwardTimeElapsed(current_time - p.state_start_time, p.config)
    THEN process_rotating([p EXCEPT !.patrol_state = "ROTATING",
                                    !.state_start_time = current_time,
                                    !.patrol_cycle = p.patrol_cycle + 1],
                          current_time)
    ELSE [patrol |-> p,
          out |-> ModeOutput(p.config.patrol_velocity, 0, "RUNNING", UnitsPerOne)]

\* PatrolMode._process_rotating
process_rotating(p, current_time) ==
    IF RotateTimeElapsed(current_time - p.state_start_time, p.config)
    THEN process_patrolling([p EXCEPT !.patrol_state = "PATROLLING",
                                      !.state_start_time = current_time],
                            current_time)
    ELSE [patrol |-> p,
          out |-> ModeOutput(0, p.config.rotate_yaw_rate * Direction(p.patrol_cycle),
                             "RUNNING", UnitsPerOne)]

\* PatrolMode._process_returning
process_returning(p, current_time) ==
    IF current_time - p.state_start_time < 2 * TicksPerSecond
    THEN [patrol |-> p,
          out |-> ModeOutput(0, p.config.rotate_yaw_rate, "RUNNING", 8000)]
    ELSE process_patrolling([p EXCEPT !.patrol_state = "PATROLLING",
                                      !.state_start_time = current_time,
                                      !.current_intruder = None],
                            current_time)

\* a tracking that resumes the patrol at once when it ends
process_tracking_resumes(p, intruder, current_time) ==
    process_patrolling([p EXCEPT !.patrol_state = "PATROLLING",
                                 !.state_start_time = current_time],
                       current_time)

\* PatrolMode._process_tracking
process_tracking(p, intruder, current_time) ==
    IF current_time - p.track_start_time[1] > p.config.max_track_time \/ intruder = None
    THEN [patrol |-> [p EXCEPT !.patrol_state = "RETURNING",
                               !.state_start_time = current_time],
          out |-> create_stop_output]
    ELSE LET distance_error == intruder[1].distance - p.config.tracking_distance
             yaw_rate == Mul(-intruder[1].center_x, p.config.tracking_gain)
         IN  [patrol |-> [p EXCEPT !.current_intruder = intruder],
              out |-> ModeOutput(
                  IF distance_error > 3000
                  THEN Smaller(p.config.patrol_velocity, distance_error \div 2)
                  ELSE IF distance_error < -3000
                  THEN Max(-2000, Mul(distance_error, 3000))
                  ELSE 0,
                  Max(-mode.max_yaw_rate, Smaller(mode.max_yaw_rate, yaw_rate)),
                  "RUNNING", intruder[1].confidence)]

\* PatrolMode._process_alert
process_alert(p, intruder, current_time) ==
    LET elapsed == current_time - p.alert_start_time[1]
        tracking == [p EXCEPT !.patrol_state = "TRACKING",
                              !.track_start_time = <<current_time>>]
        alert == ModeOutput(0, 0, "RUNNING", UnitsPerOne)
    IN  IF p.config.track_intruder /\ intruder # None /\ elapsed > TicksPerSecond
        THEN process_tracking(tracking, intruder, current_time)
        ELSE IF elapsed > p.config.alert_duration
        THEN IF intruder = None
             THEN [patrol |-> [p EXCEPT !.patrol_state = "RETURNING",
                                        !.state_start_time = current_time],
                   out |-> alert]
             ELSE IF p.config.track_intruder
             THEN [patrol |-> tracking, out |-> alert]
             ELSE [patrol |-> p, out |-> alert]
        ELSE [patrol |-> p, out |-> alert]

\* an alert that is raised at every detection
TriggersAlways(patrol_state) == TRUE

\* the test of process() before _trigger_alert
Triggers(patrol_state) == patrol_state # "ALERT" /\ patrol_state # "TRACKING"

\* an alert that does not note when it began
trigger_alert_without_start(p, intruder, at) ==
    [p EXCEPT !.current_intruder = intruder,
              !.intruders_detected = Append(p.intruders_detected, intruder[1]),
              !.patrol_state = "ALERT"]

\* PatrolMode._trigger_alert at instant `at`: the fields after it
trigger_alert(p, intruder, at) ==
    [p EXCEPT !.current_intruder = intruder,
              !.intruders_detected = Append(p.intruders_detected, intruder[1]),
              !.patrol_state = "ALERT",
              !.alert_start_time = <<at>>]

\* process() did not return: a TypeError left it
Raised == [NoOutput EXCEPT !.state = "TypeError"]

\* the elapsed time is computed from a start time that is None: in
\* _process_alert from _alert_start_time, in _process_tracking from
\* _track_start_time
SubtractsNone(p) ==
    \/ p.patrol_state = "ALERT" /\ p.alert_start_time = None
    \/ p.patrol_state = "TRACKING" /\ p.track_start_time = None

\* the state machine of process()
dispatch(p, intruder, current_time) ==
    CASE SubtractsNone(p) -> [patrol |-> p, out |-> Raised]
      [] p.patrol_state = "ALERT" -> process_alert(p, intruder, current_time)
      [] p.patrol_state = "TRACKING" -> process_tracking(p, intruder, current_time)
      [] p.patrol_state = "RETURNING" -> process_returning(p, current_time)
      [] p.patrol_state = "ROTATING" -> process_rotating(p, current_time)
      [] OTHER -> process_patrolling(p, current_time)

\* the time the detector takes on one frame, in ticks
Latencies == {0, 5}

\* PatrolMode.set_alert_callback(callback)
set_alert_callback ==
    /\ mode.kind = "Patrol"
    /\ ~patrol.alert_callback
    /\ patrol' = [patrol EXCEPT !.alert_callback = TRUE]
    /\ call' = ModeCall("set_alert_callback", "None", None)
    /\ UNCHANGED <<now, uart, mode, lf, ot, out, alerts, mcalls>>

\* PatrolMode.process on an enabled mode with a valid frame: current_time is
\* read, the detector takes `latency`, an alert is raised at the end of it
PatrolMode_process(objects, latency) ==
    LET current_time == now
        intruder == detect_intruder(objects, now + latency)
        raised == intruder # None /\ Triggers(patrol.patrol_state)
        p == IF raised THEN trigger_alert(patrol, intruder, now + latency) ELSE patrol
        after == dispatch(p, intruder, current_time)
    IN
    /\ mode.kind = "Patrol"
    /\ ProcessRuns
    /\ call' = ModeCall("process", "image", objects)
    /\ now' = now + latency
    /\ mode' = [mode EXCEPT !.frame_count = mode.frame_count + 1]
    /\ alerts' = IF raised /\ patrol.alert_callback
                 THEN Append(alerts, intruder[1]) ELSE alerts
    /\ patrol' = after.patrol
    /\ out' = after.out
    /\ UNCHANGED <<uart, lf, ot, mcalls>>

\* the periods the clock advances by between two calls, in ticks
Periods == {100, 250}
AlertPeriods == {150}

\* time passes between two calls on the mode, up to `limit`
Pass(period, limit) ==
    /\ mode.kind # "none"
    /\ now + period <= limit
    /\ now' = now + period
    /\ call' = ModeCall("none", "None", None)
    /\ UNCHANGED <<uart, mode, lf, ot, patrol, out, alerts, mcalls>>

\* A mode object of any of the three classes is constructed and then enabled,
\* disabled, paused, resumed and reset MaxModeCalls times in any order, while
\* process() is called with any frame, on at most MaxFrames valid frames, and
\* the clock advances up to MaxModeTime.
NextModes ==
    \/ \E kind \in ModeKinds : construct(kind, PatrolConfig)
    \/ mcalls < MaxModeCalls /\ enable
    \/ mcalls < MaxModeCalls /\ disable
    \/ mcalls < MaxModeCalls /\ pause
    \/ mcalls < MaxModeCalls /\ resume
    \/ mcalls < MaxModeCalls /\ reset
    \/ \E frame \in Frames : process_stop(frame)
    \/ mode.frame_count < MaxFrames
       /\ \E result \in LineResults : LineFollowingMode_process(result)
    \/ mode.frame_count < MaxFrames
       /\ \E objects \in {<<>>, <<PersonNear>>, <<PersonNoDepth>>, <<PersonNear, PersonClose>>} :
              ObjectTrackingMode_process(objects)
    \/ mode.frame_count < MaxFrames
       /\ \E objects \in {<<>>, <<PersonNear>>} : PatrolMode_process(objects, 0)
    \/ \E period \in {100} : Pass(period, Epoch + MaxModeTime)

SpecModes == Init /\ [][NextModes]_vars

\* A patrol is constructed with either configuration, given an alert
\* callback and enabled; process() is called on at most MaxAlertFrames
\* frames showing any of the detections, the detector taking either latency,
\* and the clock advances by one of AlertPeriods up to MaxAlertTime.
NextAlert ==
    \/ \E config \in PatrolConfigs : construct("Patrol", config)
    \/ set_alert_callback
    \/ mcalls < 1 /\ enable
    \/ mode.frame_count < MaxAlertFrames
       /\ \E objects \in Detections, latency \in Latencies :
              PatrolMode_process(objects, latency)
    \/ \E period \in AlertPeriods : Pass(period, Epoch + MaxAlertTime)

SpecAlert == Init /\ [][NextAlert]_vars

\* A patrol is constructed with the default configuration and enabled;
\* process() is called on at most MaxPatrolFrames frames that show nothing
\* or a person too far away, and the clock advances up to MaxPatrolTime.
NextPatrol ==
    \/ construct("Patrol", PatrolConfig)
    \/ mcalls < 1 /\ enable
    \/ mode.frame_count < MaxPatrolFrames
       /\ \E objects \in {<<>>, <<PersonFar>>} : PatrolMode_process(objects, 0)
    \/ \E period \in Periods : Pass(period, Epoch + MaxPatrolTime)

SpecPatrol == Init /\ [][NextPatrol]_vars

(* ------------------------------- C16 ----------------------------------- *)
\* the fields of the mode object, of whichever class
ModeFields == <<mode, lf, ot, patrol, alerts>>

\* C16: a mode of any of the three classes that is not enabled has ModeState
\* IDLE, whatever enable, disable, pause, resume, reset and process calls
\* were made on it; and process() called on a mode that is not enabled
\* returns velocity 0, yaw rate 0 and state IDLE and changes no field of the
\* mode.
C16_DisabledProcessStops ==
    /\ [](mode.kind # "none" /\ ~mode.enabled => mode.state = "IDLE")
    /\ [][call'.op = "process" /\ ~mode.enabled
            => /\ out' = ModeOutput(0, 0, "IDLE", 0)
               /\ ModeFields' = ModeFields]_vars

\* a mode that has processed a frame and was disabled afterwards is given a
\* valid frame
C16_Witness ==
    /\ call.op = "process"
    /\ call.frame = "image"
    /\ ~mode.enabled
    /\ mode.frame_count > 0
    /\ out = ModeOutput(0, 0, "IDLE", 0)

(* ------------------------------- C17 ----------------------------------- *)
\* what pause() and resume() leave alone besides the ModeState
BesidesState == <<mode.kind, mode.enabled, mode.frame_count, mode.max_velocity,
                  mode.min_velocity, mode.max_yaw_rate, lf, ot, patrol, out, alerts>>

\* C17: pause() changes the ModeState only when it is RUNNING, to PAUSED, and
\* resume() only when it is PAUSED, to RUNNING; in any other state each
\* changes nothing.  So a pause() on a PAUSED mode leaves it PAUSED and a
\* resume() on a RUNNING mode leaves it RUNNING.
C17_PauseResume ==
    [][/\ call'.op = "pause" =>
            /\ mode'.state = IF mode.state = "RUNNING" THEN "PAUSED" ELSE mode.state
            /\ BesidesState' = BesidesState
       /\ call'.op = "resume" =>
            /\ mode'.state = IF mode.state = "PAUSED" THEN "RUNNING" ELSE mode.state
            /\ BesidesState' = BesidesState
       /\ call'.op = "pause" /\ mode.state = "PAUSED" => mode'.state = "PAUSED"
       /\ call'.op = "resume" /\ mode.state = "RUNNING" => mode'.state = "RUNNING"]_vars

\* pause() was called on a mode that was searching, and it still is
C17_Witness ==
    /\ call.op = "pause"
    /\ mode.state = "SEARCHING"
    /\ mode.enabled

(* ------------------------------- C18 ----------------------------------- *)
\* C18: enable() called on a mode in IDLE moves it to RUNNING and marks it
\* enabled; disable() called in any ModeState moves it to IDLE and marks it
\* not enabled.
C18_EnableDisable ==
    [][/\ call'.op = "enable" /\ mode.state = "IDLE"
            => mode'.state = "RUNNING" /\ mode'.enabled
       /\ call'.op = "disable"
            => mode'.state = "IDLE" /\ ~mode'.enabled]_vars

\* a mode was enabled, lost its line or target for good, and was disabled in
\* ModeState ERROR
C18_Witness ==
    /\ call.op = "disable"
    /\ mcalls = 2
    /\ out.state = "ERROR"
    /\ mode.state = "IDLE"
    /\ ~mode.enabled

(* ------------------------------- C19 ----------------------------------- *)
\* the step is a process() call on an enabled patrol whose frame shows a
\* qualifying detection
SeesIntruder ==
    /\ call'.op = "process"
    /\ call'.frame = "image"
    /\ mode.enabled
    /\ detect_intruder(call'.result, 0) # None

\* C19: a process() call that sees a qualifying detection while the patrol is
\* PATROLLING or ROTATING moves it to ALERT, appends exactly one Intruder to
\* the history, calls the alert callback, if one is set, exactly once, and
\* returns zero velocity and zero yaw rate; a call that sees one while the
\* patrol is and remains in ALERT or TRACKING neither calls the callback nor
\* appends to the history.
C19_AlertOnce ==
    [][/\ SeesIntruder /\ patrol.patrol_state \in {"PATROLLING", "ROTATING"}
            => /\ patrol'.patrol_state = "ALERT"
               /\ Len(patrol'.intruders_detected) = Len(patrol.intruders_detected) + 1
               /\ SubSeq(patrol'.intruders_detected, 1, Len(patrol.intruders_detected))
                      = patrol.intruders_detected
               /\ Len(alerts') = Len(alerts) + (IF patrol.alert_callback THEN 1 ELSE 0)
               /\ out'.velocity = 0
               /\ out'.yaw_rate = 0
       /\ SeesIntruder /\ patrol.patrol_state \in {"ALERT", "TRACKING"}
              /\ patrol'.patrol_state \in {"ALERT", "TRACKING"}
            => /\ alerts' = alerts
               /\ patrol'.intruders_detected = patrol.intruders_detected]_vars

\* a rotating patrol saw an intruder and called the callback, and a later
\* process() call saw an intruder again: one alert, one entry in the history
C19_Witness ==
    /\ call.op = "process"
    /\ detect_intruder(call.result, 0) # None
    /\ patrol.patrol_state \in {"ALERT", "TRACKING"}
    /\ patrol.patrol_cycle = 1
    /\ patrol.alert_callback
    /\ call.at > patrol.alert_start_time[1]
    /\ Len(alerts) = 1
    /\ Len(patrol.intruders_detected) = 1

(* ------------------------------- C20 ----------------------------------- *)
\* the step is a process() call on an enabled patrol whose frame shows no
\* qualifying detection
SeesNoIntruder ==
    /\ call'.op = "process"
    /\ call'.frame = "image"
    /\ mode.enabled
    /\ detect_intruder(call'.result, 0) = None

\* the time since the phase began, at the process() call of this step
ElapsedAtCall == call'.at - patrol.state_start_time

\* C20: with no qualifying detection a PATROLLING patrol moves to ROTATING
\* at the first process() call that finds more than patrol_forward_time
\* elapsed since the phase began, and the cycle counter grows by exactly
\* one; a ROTATING patrol moves back to PATROLLING at the first process()
\* call that finds more than patrol_rotate_time elapsed since the rotation
\* began; no earlier call and no other step changes the phase, no other
\* phase is entered, and this holds in every cycle.
C20_PatrolCycle ==
    [][/\ SeesNoIntruder /\ patrol.patrol_state = "PATROLLING"
            => IF ElapsedAtCall > patrol.config.patrol_forward_time
               THEN /\ patrol'.patrol_state = "ROTATING"
                    /\ patrol'.patrol_cycle = patrol.patrol_cycle + 1
                    /\ patrol'.state_start_time = call'.at
               ELSE patrol' = patrol
       /\ SeesNoIntruder /\ patrol.patrol_state = "ROTATING"
            => IF ElapsedAtCall > patrol.config.patrol_rotate_time
               THEN /\ patrol'.patrol_state = "PATROLLING"
                    /\ patrol'.patrol_cycle = patrol.patrol_cycle
                    /\ patrol'.state_start_time = call'.at
               ELSE patrol' = patrol
       /\ call'.op # "process" /\ mode.kind = "Patrol"
            => patrol'.patrol_state = patrol.patrol_state
       /\ patrol.intruders_detected = <<>> /\ ~SeesIntruder
            => patrol'.patrol_state \in {"PATROLLING", "ROTATING"}]_vars

\* a patrol that never saw an intruder is PATROLLING for the third time
C20_Witness ==
    /\ call.op = "process"
    /\ mode.enabled
    /\ patrol.intruders_detected = <<>>
    /\ patrol.patrol_state = "PATROLLING"
    /\ patrol.patrol_cycle = 2
    /\ patrol.state_start_time = call.at
    /\ out.velocity = patrol.config.patrol_velocity

(* ------------------------------- C21 ----------------------------------- *)
\* the step is a process() call on an enabled patrol with a valid frame
ProcessesFrame ==
    /\ call'.op = "process"
    /\ call'.frame = "image"
    /\ mode.enabled

\* C21: a process() call on a RETURNING patrol leaves it RETURNING, with zero
\* velocity and the rotation yaw rate, while less than 2.0 s have elapsed
\* since the return began, and moves it to PATROLLING with the current
\* intruder cleared otherwise; a qualifying detection in that call does not
\* move it to ALERT, so ALERT is entered only from PATROLLING or ROTATING.
C21_ReturningOnlyToPatrolling ==
    [][/\ ProcessesFrame /\ patrol.patrol_state = "RETURNING"
            => IF ElapsedAtCall < 2 * TicksPerSecond
               THEN /\ patrol'.patrol_state = "RETURNING"
                    /\ out'.velocity = 0
                    /\ out'.yaw_rate = patrol.config.rotate_yaw_rate
               ELSE /\ patrol'.patrol_state = "PATROLLING"
                    /\ patrol'.current_intruder = None
       /\ patrol'.patrol_state = "ALERT" /\ patrol.patrol_state # "ALERT"
            => patrol.patrol_state \in {"PATROLLING", "ROTATING"}]_vars

(* ------------------------------- C22 ----------------------------------- *)
\* the time since the alert began, at the process() call of this step
AlertElapsedAtCall == call'.at - patrol.alert_start_time[1]

\* C22: a process() call on a patrol in ALERT that finds alert_duration
\* elapsed and still sees a qualifying intruder, with track_intruder
\* disabled, moves the patrol to TRACKING.
C22_AlertToTrackingWhenDisabled ==
    [][SeesIntruder /\ patrol.patrol_state = "ALERT"
         /\ ~patrol.config.track_intruder
         /\ AlertElapsedAtCall > patrol.config.alert_duration
            => patrol'.patrol_state = "TRACKING"]_vars

(* ------------------------------- C23 ----------------------------------- *)
\* A patrol is constructed with an alert_duration of 0.5 s and a
\* max_track_time of 1.0 s and enabled;
\* process() is called on at most MaxShortFrames frames that show nothing or
\* a person near, the detector taking either latency, and the clock advances
\* by 0.75 s at a time up to MaxShortTime.
NextShort ==
    \/ construct("Patrol", ShortAlertConfig)
    \/ mcalls < 1 /\ enable
    \/ mode.frame_count < MaxShortFrames
       /\ \E objects \in {<<>>, <<PersonNear>>}, latency \in Latencies :
              PatrolMode_process(objects, latency)
    \/ \E period \in {(3 * TicksPerSecond) \div 4} : Pass(period, Epoch + MaxShortTime)

SpecShort == Init /\ [][NextShort]_vars

\* C23: whatever alert_duration is, a patrol moves from ALERT to TRACKING
\* only at a process() call where track_intruder is enabled, a qualifying
\* intruder is seen and at least 1 s has elapsed since the alert began; and
\* a process() call on a patrol in ALERT with track_intruder enabled that
\* sees a qualifying intruder more than 1 s after the alert began moves it
\* to TRACKING.
C23_AlertToTracking ==
    [][/\ patrol.patrol_state = "ALERT" /\ patrol'.patrol_state = "TRACKING"
            => /\ SeesIntruder
               /\ patrol.config.track_intruder
               /\ AlertElapsedAtCall >= TicksPerSecond
       /\ SeesIntruder /\ patrol.patrol_state = "ALERT"
              /\ patrol.config.track_intruder
              /\ AlertElapsedAtCall > TicksPerSecond
            => patrol'.patrol_state = "TRACKING"]_vars

(* ------------------------------- C24 ----------------------------------- *)
\* the time since tracking began, at the process() call of this step
TrackElapsedAtCall == call'.at - patrol.track_start_time[1]

\* C24: no step other than reset() takes a patrol from ALERT or TRACKING to
\* PATROLLING.  A process() call that finds alert_duration elapsed in ALERT
\* with no intruder in the frame, or that finds no intruder or
\* max_track_time elapsed in TRACKING, moves the patrol to RETURNING and
\* returns zero velocity.  PATROLLING is entered only from ROTATING, from
\* RETURNING or by reset().
C24_FallBackToReturning ==
    [][/\ patrol.patrol_state \in {"ALERT", "TRACKING"} /\ call'.op # "reset"
            => patrol'.patrol_state # "PATROLLING"
       /\ SeesNoIntruder /\ patrol.patrol_state = "ALERT"
              /\ AlertElapsedAtCall > patrol.config.alert_duration
            => patrol'.patrol_state = "RETURNING" /\ out'.velocity = 0
       /\ ProcessesFrame /\ patrol.patrol_state = "TRACKING"
              /\ (SeesNoIntruder \/ TrackElapsedAtCall > patrol.config.max_track_time)
            => patrol'.patrol_state = "RETURNING" /\ out'.velocity = 0
       /\ patrol'.patrol_state = "PATROLLING" /\ patrol.patrol_state # "PATROLLING"
              /\ call'.op # "reset"
            => patrol.patrol_state \in {"ROTATING", "RETURNING"}]_vars

\* a patrol that was tracking for more than max_track_time began to return
\* with the intruder still in the frame, and stopped
C24_Witness ==
    /\ call.op = "process"
    /\ detect_intruder(call.result, 0) # None
    /\ patrol.patrol_state = "RETURNING"
    /\ patrol.state_start_time = call.at
    /\ patrol.track_start_time # None
    /\ out.velocity = 0
    /\ out.yaw_rate = 0

(* ------------------------------- C25 ----------------------------------- *)
\* a ModeOutput with numbers for its commands and a ModeState
WellFormed(output) ==
    /\ output.velocity \in Int
    /\ output.yaw_rate \in Int
    /\ output.confidence \in 0..UnitsPerOne
    /\ output.state \in ModeStates

\* what a patrol keeps: the PatrolState, the timers, the cycle counter, the
\* current intruder, the history and the callbacks made
PatrolFields == <<patrol, alerts>>

\* C25: every process() call on a patrol, in whatever state the patrol is and
\* whatever the frame shows, returns a well-formed ModeOutput and does not
\* raise; a call with a missing or empty frame returns zero velocity and
\* zero yaw rate and leaves the PatrolState, the timers, the cycle counter,
\* the current intruder and the history unchanged.
C25_ProcessAlwaysReturns ==
    [][call'.op = "process" /\ mode.kind = "Patrol"
         => /\ out' # Raised
            /\ WellFormed(out')
            /\ InvalidFrame(call'.frame)
                 => /\ out'.velocity = 0
                    /\ out'.yaw_rate = 0
                    /\ PatrolFields' = PatrolFields]_vars

\* a patrol that is tracking an intruder is given an empty frame
C25_Witness ==
    /\ call.op = "process"
    /\ call.frame = "empty"
    /\ mode.enabled
    /\ patrol.patrol_state = "TRACKING"
    /\ out.velocity = 0
    /\ out.yaw_rate = 0

(* ------------------------------- C26 ----------------------------------- *)
\* C26: whatever process(), enable(), disable(), pause(), resume() and
\* reset() calls are made on a patrol, the history before a call is a
\* prefix of the history after it: no Intruder is removed or changed.
C26_HistoryAppendOnly ==
    [][/\ Len(patrol.intruders_detected) <= Len(patrol'.intruders_detected)
       /\ SubSeq(patrol'.intruders_detected, 1, Len(patrol.intruders_detected))
              = patrol.intruders_detected]_vars

(* ------------------------------ the codec ------------------------------ *)
RECURSIVE Decimal(_)
\* str(n) of an integer n
Decimal(n) ==
    IF n < 0 THEN <<"-">> \o Decimal(-n)
    ELSE IF n < 10 THEN <<Digits[n + 1]>>
    ELSE Decimal(n \div 10) \o <<Digits[(n % 10) + 1]>>

\* the command string of a line: f"{CMD}{scaled}" for the numeric commands,
\* the literal for E1, E0, J1 and ?
Text(command) ==
    IF command.k = "?" THEN <<"?">> ELSE <<command.k>> \o Decimal(command.n)

\* _send_command_direct: data = (command + "\n")
Encoded(command) == Text(command) \o <<"\n">>

\* the telemetry line F0.50,1.00,0.78,0.10
ExampleLine ==
    <<"F", "0", ".", "5", "0", ",", "1", ".", "0", "0", ",",
      "0", ".", "7", "8", ",", "0", ".", "1", "0">>

\* the arguments of send_motion_command: 0.8 m/s and -0.3 rad/s; values
\* with a fourth decimal; values under a thousandth
CodecCommands ==
    { <<8000, -3000, None, None>>,
      <<8005, -3005, <<1509>>, <<-1001>>>>,
      <<-5, 5, <<805>>, None>> }

\* The driver connects, enables and sends motion commands with these
\* arguments while the sender writes them, and the receiver parses the
\* telemetry line.
NextCodec ==
    \/ calls < MaxCodecCalls /\ connect
    \/ calls < MaxCodecCalls /\ enable_control
    \/ enable_try
    \/ enable_height
    \/ enable_set
    \/ calls < MaxCodecCalls
         /\ \E c \in CodecCommands : send_motion_command(c[1], c[2], c[3], c[4])
    \/ motion_put
    \/ send_loop_top
    \/ send_loop_get
    \/ send_loop_write
    \/ send_loop_sleep
    \/ lines = 0 /\ receive_feedback(ExampleLine)
    \/ parse_lock
    \/ parse_assign
    \/ parse_stamp
    \/ parse_confirm
    \/ Tick(Epoch + MaxCodecTime)

SpecCodec == Init /\ [][NextCodec]_vars

(* ------------------------------- C27 ----------------------------------- *)
\* m is x, a number of ten-thousandths, truncated toward zero
TruncatedTowardZero(m, x) ==
    IF x >= 0 THEN m * UnitsPerOne <= x /\ x < (m + 1) * UnitsPerOne
    ELSE m * UnitsPerOne >= x /\ x > (m - 1) * UnitsPerOne

\* the argument of the last send_motion_command call that line w carries
Carried(w) ==
    CASE w.k = "V" -> drv.args[1]
      [] w.k = "Y" -> drv.args[2]
      [] w.k = "H" -> drv.args[3][1]
      [] w.k = "R" -> drv.args[4][1]

\* the digits of text read as an integer, None when text is not the decimal
\* form of one
ReadInteger(text) ==
    LET body == IF text # <<>> /\ text[1] = "-" THEN Tail(text) ELSE text
    IN  IF /\ body # <<>>
           /\ \A i \in 1..Len(body) : IsDigit(body[i])
           /\ Len(body) > 1 => body[1] # "0"
           /\ body = <<"0">> => text = body
        THEN <<(IF body = text THEN 1 ELSE -1) * Number(body)>>
        ELSE None

\* C27: the line written for a numeric command is its letter followed by
\* the decimal integer that is the physical value times 1000 truncated
\* toward zero, so 0.8 m/s is V800 and -0.3 rad/s is Y-300; the boolean
\* commands are the literals E1, E0, J1 and ?; every line written ends with
\* a newline; and once F0.50,1.00,0.78,0.10 is parsed the feedback holds
\* velocity 0.50, position 1.00, yaw 0.78, yaw rate 0.10 and is valid.
C27_Codec ==
    /\ \A i \in 1..Len(wire) :
          /\ Encoded(wire[i])[Len(Encoded(wire[i]))] = "\n"
          /\ wire[i].call # 0 /\ wire[i].call = calls /\ drv.op = "send_motion_command"
               => /\ Head(Text(wire[i])) = wire[i].k
                  /\ ReadInteger(Tail(Text(wire[i]))) # None
                  /\ TruncatedTowardZero(ReadInteger(Tail(Text(wire[i])))[1],
                                         Carried(wire[i]) * 1000)
    /\ Text(format_velocity(8000)) = <<"V", "8", "0", "0">>
    /\ Text(format_yaw_rate(-3000)) = <<"Y", "-", "3", "0", "0">>
    /\ Text(CMD_ENABLE) = <<"E", "1">>
    /\ Text(CMD_DISABLE) = <<"E", "0">>
    /\ Text(CMD_JUMP_LINE) = <<"J", "1">>
    /\ Text(CMD_HEARTBEAT) = <<"?">>
    /\ feedback.valid
         => /\ feedback.velocity = 5000
            /\ feedback.position = 10000
            /\ feedback.yaw = 7800
            /\ feedback.yaw_rate = 1000

\* -0.3005 rad/s was written as Y-300 and -0.1001 rad as R-100, and the
\* telemetry line was parsed
C27_Witness ==
    /\ drv.op = "send_motion_command"
    /\ drv.args = <<8005, -3005, <<1509>>, <<-1001>>>>
    /\ \E i \in 1..Len(wire) :
          wire[i].call = calls /\ Text(wire[i]) = <<"Y", "-", "3", "0", "0">>
    /\ \E i \in 1..Len(wire) :
          wire[i].call = calls /\ Text(wire[i]) = <<"R", "-", "1", "0", "0">>
    /\ feedback.valid
    /\ feedback.yaw = 7800

(* ------------------------------- C28 ----------------------------------- *)
\* C28: in a cycle of the watchdog the miss counter is tested only after the
\* time since the last confirmed response was found to exceed
\* HEARTBEAT_TIMEOUT, and link-lost handling is run only after the counter
\* was then found to be at least MAX_MISSED_HEARTBEATS; the watchdog clears
\* the enabled flag nowhere else.  So it does not disable the controller in
\* a cycle that finds a response confirmed within HEARTBEAT_TIMEOUT,
\* whatever the counter, nor in one that finds fewer than
\* MAX_MISSED_HEARTBEATS misses, however old the last response.
C28_BothConditions ==
    [][/\ wd'.pc = "check_missed" /\ wd.pc # "check_missed"
            => wd.pc = "check" /\ now - last_heartbeat_response > HEARTBEAT_TIMEOUT
       /\ wd'.pc = "lost" /\ wd.pc # "lost"
            => wd.pc = "check_missed" /\ missed_heartbeats >= MAX_MISSED_HEARTBEATS
       /\ wd.pc = "check" /\ ~(now - last_heartbeat_response > HEARTBEAT_TIMEOUT)
            => wd'.pc \notin {"check_missed", "lost", "lost_stop"}
       /\ wd.pc = "check_missed" /\ missed_heartbeats < MAX_MISSED_HEARTBEATS
            => wd'.pc \notin {"lost", "lost_stop"}
       /\ is_enabled /\ ~is_enabled' /\ wd' # wd => wd.pc = "lost"]_vars

\* the watchdog found the last response too old and the counter at the
\* threshold, and is about to handle the lost link
C28_Witness ==
    /\ wd.pc = "lost"
    /\ is_enabled
    /\ now - last_heartbeat_response > HEARTBEAT_TIMEOUT
    /\ missed_heartbeats >= MAX_MISSED_HEARTBEATS

(* ------------------------------- C29 ----------------------------------- *)
\* C29: when the receiver resets the miss counter between the watchdog's
\* read of the counter and its write of the incremented value, the counter
\* after the write is 0 or 1, never the value read before the reset plus one.
C29_AtomicCounter ==
    [][wd.pc = "miss" /\ wd'.pc # "miss" /\ missed_heartbeats < wd.tmp
           => missed_heartbeats' \in {0, 1}]_vars

(* ------------------- the workers and their callbacks ------------------- *)
MaxWorkCalls == 3
MaxWorkTime == 60

\* The driver connects, registers a heartbeat and a feedback callback,
\* enables control and queues a motion command; the link may turn flaky;
\* the sender, the watchdog and the receiver run, and each callback may
\* return or raise.  Within MaxWorkTime ticks of connect() no response is older than
\* HEARTBEAT_TIMEOUT, so link-lost handling is out of reach.
NextWorkers ==
    \/ calls < MaxWorkCalls /\ connect
    \/ calls < MaxWorkCalls /\ set_heartbeat_callback
    \/ calls < MaxWorkCalls /\ set_feedback_callback
    \/ calls < MaxWorkCalls /\ enable_control
    \/ enable_try
    \/ enable_failed
    \/ enable_height
    \/ enable_set
    \/ calls < MaxWorkCalls /\ send_motion_command(8000, -3000, None, None)
    \/ motion_put
    \/ send_loop_top
    \/ send_loop_get
    \/ send_loop_write
    \/ send_loop_sleep
    \/ heartbeat_loop_top
    \/ heartbeat_ping
    \/ heartbeat_response
    \/ heartbeat_no_response
    \/ heartbeat_miss
    \/ heartbeat_check
    \/ heartbeat_notify
    \/ heartbeat_notify_raises
    \/ lines = 0 /\ receive_feedback(ExampleLine)
    \/ parse_lock
    \/ parse_assign
    \/ parse_stamp
    \/ parse_confirm
    \/ callback_return
    \/ callback_raises
    \/ LinkFails({"flaky"})
    \/ Tick(Epoch + MaxWorkTime)

SpecWorkers == Init /\ [][NextWorkers]_vars

(* ------------------------------- C30 ----------------------------------- *)
\* C30: while the stop flag is not set, no worker has been ended by an
\* exception: after a failed write or read, or a callback that raised, the
\* sender, the watchdog and the receiver are still in their loops.
C30_WorkersSurvive ==
    running => /\ snd.pc \notin {"none", "done", "raised"}
               /\ wd.pc \notin {"none", "done", "raised"}
               /\ rcv.pc \notin {"none", "done", "raised"}

MaxSweepFrames == 10
MaxSweepTime == 700
MaxSweepCalls == 2

\* A patrol is constructed with forward and rotation times of 1.0 s, an
\* alert_duration of 0.5 s and a max_track_time of 1.0 s, enabled and
\* possibly reset; process() is called on at most MaxSweepFrames frames that
\* show nothing or a person near, and the clock advances by 0.75 s at a time
\* up to MaxSweepTime.
NextSweep ==
    \/ construct("Patrol", SweepConfig)
    \/ mcalls < 1 /\ enable
    \/ 0 < mcalls /\ mcalls < MaxSweepCalls /\ reset
    \/ mode.frame_count < MaxSweepFrames
       /\ \E objects \in {<<>>, <<PersonNear>>} : PatrolMode_process(objects, 0)
    \/ \E period \in {(3 * TicksPerSecond) \div 4} : Pass(period, Epoch + MaxSweepTime)

SpecSweep == Init /\ [][NextSweep]_vars

(* ------------------------------- C33 ----------------------------------- *)
\* C33: a process() call that leaves an enabled patrol ROTATING returns the
\* rotation yaw rate with the sign of the parity of the cycle counter (plus
\* when even); the counter grows by exactly one in each step that enters
\* ROTATING, which is entered from PATROLLING only, and changes in no other
\* step but reset().  So two consecutive Rotating phases have counters c
\* and c + 1 and rotate in opposite directions, with or without an alert,
\* tracking or returning episode in between.
C33_AlternatingRotation ==
    [][/\ ProcessesFrame /\ patrol'.patrol_state = "ROTATING"
            => /\ out'.velocity = 0
               /\ out'.yaw_rate = IF patrol'.patrol_cycle % 2 = 0
                                  THEN patrol.config.rotate_yaw_rate
                                  ELSE -patrol.config.rotate_yaw_rate
       /\ patrol.patrol_state # "ROTATING" /\ patrol'.patrol_state = "ROTATING"
            => /\ patrol.patrol_state = "PATROLLING"
               /\ patrol'.patrol_cycle = patrol.patrol_cycle + 1
       /\ ~(patrol.patrol_state # "ROTATING" /\ patrol'.patrol_state = "ROTATING")
          /\ call'.op # "reset"
            => patrol'.patrol_cycle = patrol.patrol_cycle]_vars

\* the second rotation after an alert episode: the patrol has seen an
\* intruder, rotates for the second time and turns the other way
C33_Witness ==
    /\ call.op = "process"
    /\ patrol.patrol_state = "ROTATING"
    /\ patrol.patrol_cycle = 2
    /\ patrol.intruders_detected # <<>>
    /\ out.yaw_rate = patrol.config.rotate_yaw_rate

(* ----------------------- the lines of the receiver --------------------- *)
\* text.startswith(prefix)
StartsWith(text, prefix) ==
    Len(text) >= Len(prefix) /\ SubSeq(text, 1, Len(prefix)) = prefix

\* a receiver for which any non-empty line is proof of life
AcknowledgesAny(line) == line # <<>>

\* line.startswith('OK') or line == 'ERR' or line == '!'
Acknowledges(line) ==
    \/ StartsWith(line, <<"O", "K">>)
    \/ line = <<"E", "R", "R">>
    \/ line = <<"!">>

\* the receiver reads a line that does not start with 'F'; `line` is kept
\* as the local of the loop
receive_response(line) ==
    /\ rcv.pc = "poll"
    /\ running /\ is_connected /\ serial_open
    /\ link = "up"
    /\ lines < MaxLines
    /\ ~StartsWith(line, <<"F">>)
    /\ lines' = lines + 1
    /\ rcv' = [RcvPoll EXCEPT !.data = <<line>>]
    /\ IF Acknowledges(line)
       THEN /\ last_heartbeat_response' = now
            /\ missed_heartbeats' = 0
       ELSE UNCHANGED health
    /\ UNCHANGED <<now, modes, joins, feedback, feedback_lock, feedback_callback,
                   heartbeat_callback, rdr, returned, callbacks, link, ctl, command_queue,
                   last_command_time, drv, snd, wd, wire, ghost, calls>>

\* lines that are acknowledgments, and lines that are not: the empty line,
\* the robot's R= report, a text that begins with ! or ERR
ResponseLines ==
    { <<"O", "K">>, <<"O", "K", "1">>, <<"E", "R", "R">>, <<"!">>,
      <<>>, <<"R", "=", "1">>, <<"!", "1">>, <<"E", "R", "R", "1">>, <<"o", "k">> }

MaxReceiveTime == 65

\* The driver connects; the receiver reads up to MaxLines lines of any of
\* these kinds and telemetry lines, good and malformed, while the watchdog
\* runs its first cycle with or without a response and the clock advances up
\* to MaxReceiveTime.
NextReceive ==
    \/ calls < 1 /\ connect
    \/ send_loop_top
    \/ heartbeat_loop_top
    \/ heartbeat_ping
    \/ heartbeat_response
    \/ heartbeat_no_response
    \/ heartbeat_miss
    \/ heartbeat_check
    \/ \E line \in ResponseLines : receive_response(line)
    \/ \E line \in TelemetryLines : receive_feedback(line)
    \/ parse_lock
    \/ parse_assign
    \/ parse_stamp
    \/ parse_confirm
    \/ Tick(Epoch + MaxReceiveTime)

SpecReceive == Init /\ [][NextReceive]_vars

(* ------------------------------- C32 ----------------------------------- *)
\* the receiver finishes with a line that does not start with 'F'
ReadsResponse == lines' = lines + 1 /\ rcv'.pc = "poll" /\ rcv'.data # <<>>

\* the miss counter is 0 and the last-confirmed-response time is now
HealthReset == last_heartbeat_response' = now /\ missed_heartbeats' = 0

\* C32: the receiver resets the miss counter to 0 and sets the
\* last-confirmed-response time to now when it reads a line that starts with
\* OK, or is ERR or '!', and when a telemetry line has parsed; on any other
\* line (unrecognized text, telemetry with fewer than four fields or with a
\* field that is not a number) no step of the receiver changes either, and a
\* telemetry line that parses always reaches the reset.
C32_ReceiverConfirms ==
    [][/\ ReadsResponse
            => IF \/ StartsWith(rcv'.data[1], <<"O", "K">>)
                  \/ rcv'.data[1] \in {<<"E", "R", "R">>, <<"!">>}
               THEN HealthReset ELSE UNCHANGED health
       /\ rcv.pc = "confirm" /\ rcv' # rcv => HealthReset
       /\ rcv' # rcv /\ ~ReadsResponse /\ rcv.pc \notin {"none", "confirm"}
            => UNCHANGED health
       /\ rcv.pc \in {"lock", "assign", "stamp"} /\ rcv'.pc = "poll" => ~Parses(rcv.data)
       /\ rcv'.pc = "confirm" => Parses(rcv'.data)]_vars

\* while the watchdog is at its link test the receiver has read an OK line
\* with an argument, at a later instant than connect(), and the bookkeeping
\* is reset
C32_Witness ==
    /\ rcv.pc = "poll"
    /\ rcv.data = << <<"O", "K", "1">> >>
    /\ wd.pc = "check"
    /\ wd.tmp = 0
    /\ missed_heartbeats = 0
    /\ last_heartbeat_response = now
    /\ now > Epoch

(* ------------------------- intruder detection -------------------------- *)
\* a person 1.3 m ahead whose score 0.6 / 1.4 equals that of PersonNear,
\* 0.9 / 2.1
PersonTie == DetectedObject("person", 6000, <<200, 100, 300, 300>>, 13000)
\* a person 2.0 m ahead reported with confidence 0.0
PersonZero == DetectedObject("person", 0, <<300, 100, 400, 300>>, 20000)

\* the lists result.objects of one frame: equal scores in both orders, a
\* better score first and last, detections that fail one test each
DetectLists ==
    { <<>>, <<PersonNear, PersonTie>>, <<PersonTie, PersonNear>>,
      <<PersonNear, PersonClose>>, <<PersonClose, PersonNear, PersonTie>>,
      <<PersonZero>>, <<PersonZero, PersonFar>>, <<PersonFar, PersonNear>>,
      <<PersonNoDepth>>, <<PersonUnsure>>, <<PersonSmall, Chair>> }

\* PatrolConfig() and PatrolConfig(min_confidence=0.0)
DetectConfigs == {PatrolConfig, [PatrolConfig EXCEPT !.min_confidence = 0]}

MaxDetectFrames == 2
MaxDetectTime == 300

\* A patrol is constructed with either configuration and enabled; process()
\* is called on at most MaxDetectFrames frames showing any of these lists,
\* and the clock advances by 1.5 s at a time up to MaxDetectTime.
NextDetect ==
    \/ \E config \in DetectConfigs : construct("Patrol", config)
    \/ mcalls < 1 /\ enable
    \/ mode.frame_count < MaxDetectFrames
       /\ \E objects \in DetectLists : PatrolMode_process(objects, 0)
    \/ \E period \in AlertPeriods : Pass(period, Epoch + MaxDetectTime)

SpecDetect == Init /\ [][NextDetect]_vars

(* ------------------------------- C34 ----------------------------------- *)
\* the detection has the configured class, confidence >= min_confidence,
\* box area >= min_box_area and a measured distance <= alert_distance
MeetsThresholds(det) ==
    /\ det.class_name = patrol.config.detect_class
    /\ det.confidence >= patrol.config.min_confidence
    /\ BoxArea(det.bbox) >= patrol.config.min_box_area
    /\ det.depth > 0
    /\ det.depth <= patrol.config.alert_distance

\* confidence / (distance + 0.1) of a is less than that of b
ScoreBelow(a, b) ==
    a.confidence * (b.depth + UnitsPerOne \div 10)
        < b.confidence * (a.depth + UnitsPerOne \div 10)

\* i is the first of the detections of `which` with the largest score
IsBestOf(objects, which, i) ==
    /\ i \in which
    /\ \A j \in which : ~ScoreBelow(objects[i], objects[j])
    /\ \A j \in which : j < i => ScoreBelow(objects[j], objects[i])

\* what the history of a patrol that can raise an alert becomes in a
\* process() call that shows `objects`, when the detections of `which` are
\* those that may be returned
RecordsBestOf(objects, which) ==
    IF which = {}
    THEN patrol'.intruders_detected = patrol.intruders_detected
    ELSE \E i \in which :
            /\ IsBestOf(objects, which, i)
            /\ patrol'.intruders_detected
                 = Append(patrol.intruders_detected, Intruder(objects[i], now'))
            /\ patrol'.current_intruder = <<Intruder(objects[i], now')>>

\* the step is a process() call on an enabled patrol that is neither in
\* ALERT nor in TRACKING, so that a returned intruder is recorded
DetectsAtCall == ProcessesFrame /\ patrol.patrol_state \notin {"ALERT", "TRACKING"}

\* C34 as stated: an intruder is returned exactly when at least one detection
\* meets the four thresholds, and it is the first such detection with the
\* largest confidence / (distance + 0.1).
C34_BestIntruder ==
    [][DetectsAtCall
         => RecordsBestOf(call'.result,
                {i \in 1..Len(call'.result) : MeetsThresholds(call'.result[i])})]_vars

\* C34, amended: an intruder is returned exactly when at least one detection
\* meets the four thresholds with a confidence above zero, and it is the
\* first such detection with the largest confidence / (distance + 0.1).
C34_BestIntruderOfPositive ==
    [][DetectsAtCall
         => RecordsBestOf(call'.result,
                {i \in 1..Len(call'.result) :
                    MeetsThresholds(call'.result[i]) /\ call'.result[i].confidence > 0})]_vars

\* of three qualifying detections the first has the best score and the other
\* two have equal scores; the first is the intruder recorded
C34_Witness ==
    /\ call.op = "process"
    /\ call.result = <<PersonClose, PersonNear, PersonTie>>
    /\ patrol.patrol_state = "ALERT"
    /\ patrol.current_intruder = <<Intruder(PersonClose, now)>>
    /\ Len(patrol.intruders_detected) = 1

(* ------------------------------- C35 ----------------------------------- *)
\* C35: a process() call on a mode whose ModeState is PAUSED leaves the
\* ModeState PAUSED and returns zero velocity and zero yaw rate, and no step
\* but resume(), enable(), disable() and reset() ends the pause; for each of
\* the three classes.
C35_PausedStaysStopped ==
    [][mode.state = "PAUSED"
         => /\ call'.op = "process"
                => /\ mode'.state = "PAUSED"
                   /\ out'.velocity = 0
                   /\ out'.yaw_rate = 0
            /\ call'.op \notin {"resume", "enable", "disable", "reset"}
                => mode'.state = "PAUSED"]_vars

(* ------------------------------- C36 ----------------------------------- *)
\* C36: the sender started by a connect() writes no command that was in the
\* outbound queue when that connect() was called, that is, none left there
\* by the session the preceding disconnect() ended: while connect() is the
\* last call made, no line the sender puts on the wire carries the id of such
\* a command.
C36_NoStaleCommands ==
    [][drv.op = "connect" /\ Len(wire') = Len(wire) + 1
         => LET line == wire'[Len(wire')]
            IN  line.by = "sender" => line.id \notin drv.pending]_vars

(* ------------------------------- C37 ----------------------------------- *)
\* the positions of the enable and disable literals on the wire
EnableLiterals == {i \in 1..Len(wire) : wire[i].k = "E"}

\* C37: whenever the driver is in no call, the watchdog is not handling a
\* lost link and the enabled flag is true, the last E literal written to the
\* wire is E1.
C37_EnabledMeansE1Last ==
    drv.pc = "idle" /\ wd.pc \notin {"lost", "lost_stop"} /\ is_enabled
        => /\ EnableLiterals # {}
           /\ \A i \in EnableLiterals :
                  (\A j \in EnableLiterals : j <= i) => wire[i].n = 1

C39_PatrolFieldsSet ==
    mode.kind = "Patrol"
        => /\ patrol.patrol_state = "ALERT" => patrol.alert_start_time # None
           /\ patrol.patrol_state = "TRACKING" => patrol.track_start_time # None
           /\ patrol.patrol_state \in {"PATROLLING", "ROTATING"}
                  => patrol.current_intruder = None

\* after an alert episode the patrol rotates again, with the intruder it
\* recorded cleared
C39_Witness ==
    /\ mode.kind = "Patrol"
    /\ patrol.patrol_state = "ROTATING"
    /\ patrol.intruders_detected # <<>>
    /\ patrol.current_intruder = None

(* ----------------------- the lost line and target ---------------------- *)
MaxLostFrames == 5
MaxLostCalls == 2

\* A LineFollowingMode or an ObjectTrackingMode with max_frames_lost = 2 is
\* constructed, enabled and possibly reset; process() is called with invalid
\* frames and on at most MaxLostFrames valid frames, with or without a line
\* or a target in them.
NextLost ==
    \/ \E kind \in {"LineFollowing", "ObjectTracking"} : construct(kind, PatrolConfig)
    \/ mcalls < 1 /\ enable
    \/ 0 < mcalls /\ mcalls < MaxLostCalls /\ reset
    \/ \E frame \in Frames : process_stop(frame)
    \/ mode.frame_count < MaxLostFrames
       /\ \E result \in LineResults : LineFollowingMode_process(result)
    \/ mode.frame_count < MaxLostFrames
       /\ \E objects \in {<<>>, <<Chair>>, <<PersonNear>>, <<PersonClose>>} :
              ObjectTrackingMode_process(objects)

SpecLost == Init /\ [][NextLost]_vars

(* ------------------------------- C40 ----------------------------------- *)
\* the fields both classes keep for the search
Search(m, l, o) ==
    IF m.kind = "LineFollowing"
    THEN [frames_lost |-> l.frames_lost, search_direction |-> l.search_direction,
          max_frames_lost |-> l.config.max_frames_lost,
          search_yaw_rate |-> l.config.search_yaw_rate]
    ELSE [frames_lost |-> o.frames_lost, search_direction |-> o.search_direction,
          max_frames_lost |-> o.config.max_frames_lost,
          search_yaw_rate |-> o.config.search_yaw_rate]

\* the valid frame of this step's process() call shows the line, or an
\* object that passes the tests of the tracker
DetectsAtFrame ==
    IF mode.kind = "LineFollowing" THEN call'.result.line_detected
    ELSE \E i \in 1..Len(call'.result) : IsCandidate(call'.result[i])

\* C40: in LineFollowingMode and in ObjectTrackingMode the lost counter
\* counts the enabled process() calls on valid frames without a detection
\* since the last detection (or reset()): no other step changes it or the
\* search direction.  The N-th such call in a row returns zero velocity,
\* state SEARCHING and the search yaw rate times a direction of 1 or -1 that
\* is chosen when N = 1 and kept afterwards, while N <= max_frames_lost, and
\* state ERROR with zero velocity and zero yaw rate when N > max_frames_lost;
\* a call that detects sets the counter to 0 and returns state RUNNING,
\* whatever the state was.
C40_SearchThenError ==
    [][mode.kind \in {"LineFollowing", "ObjectTracking"}
         => LET before == Search(mode, lf, ot)
                after == Search(mode', lf', ot')
                N == before.frames_lost + 1
            IN  IF ProcessesFrame /\ ~DetectsAtFrame
                THEN /\ after.frames_lost = N
                     /\ out'.velocity = 0
                     /\ IF N <= before.max_frames_lost
                        THEN /\ out'.state = "SEARCHING"
                             /\ mode'.state = "SEARCHING"
                             /\ after.search_direction \in {1, -1}
                             /\ N > 1 => after.search_direction = before.search_direction
                             /\ out'.yaw_rate
                                  = after.search_direction * before.search_yaw_rate
                        ELSE /\ out'.state = "ERROR"
                             /\ mode'.state = "ERROR"
                             /\ out'.yaw_rate = 0
                ELSE IF ProcessesFrame
                THEN /\ after.frames_lost = 0
                     /\ out'.state = "RUNNING"
                     /\ mode'.state = "RUNNING"
                ELSE call'.op # "reset"
                       => /\ after.frames_lost = before.frames_lost
                          /\ after.search_direction = before.search_direction]_vars

\* three frames without the line, the third of them answered with ERROR,
\* and then a frame with the line: the mode is RUNNING again
C40_Witness ==
    /\ mode.kind = "LineFollowing"
    /\ call.op = "process"
    /\ call.frame = "image"
    /\ lf.total_frames = 4
    /\ lf.line_detected_frames = 1
    /\ lf.frames_lost = 0
    /\ mode.state = "RUNNING"
    /\ out.state = "RUNNING"

====
